---- MODULE Spec2Model ----
(***************************************************************************)
(* Document ingestion of features/documents and features/chat.             *)
(* Admin side: uploadAndProcessFile, its detached continuation             *)
(* processDocumentInBackground, deleteDocument and the tag / category /    *)
(* description edits, over the three stores they coordinate (blob store,   *)
(* metadata store, search index).  Chat side: generateEmbeddings,          *)
(* embedDocuments and UploadDocument with ensureIndexIsCreated and the     *)
(* chunker.  Every await on a store or service is one step, so that        *)
(* handlers interleave where the code can be suspended.                    *)
(***************************************************************************)
EXTENDS Integers, Sequences, FiniteSets, TLC

\* ---------------------------------------------------------------- bounds
MaxDocs == 1       \* uploads the model follows (one document id each)
MaxPair == 2       \* uploads of the runs that follow concurrent uploads
MaxEdits == 1      \* tag / category / description edits
MaxDeletes == 2    \* deleteDocument calls on one document id
MaxDownloads == 1  \* downloadDocument calls on one document id

MaxLen == 3        \* characters of a text handed to the embedding functions
MaxBatch == 3      \* documents of one embedDocuments call
MaxChatUploads == 2  \* UploadDocument calls, one after the other
MaxParagraphs == 2   \* paragraphs the chat extraction returns
MaxChunkSize == 3    \* characters of a chunk
MaxIndexCalls == 1     \* IndexDocuments calls
MaxRemoves == 1        \* deleteDocuments calls
MaxChunks == 2         \* chunks handed to one IndexDocuments call
MaxThreadChunks == 11  \* chunks a chat thread has in the search index at the start
MaxRecords == 5    \* records in the metadata container, for the statistics
MaxGets == 1       \* GET /api/documents requests

\* the ids the state is kept for, and those the one-upload specifications use
DocIds == 1..(IF MaxPair > MaxDocs THEN MaxPair ELSE MaxDocs)
SingleIds == 1..MaxDocs
RecordIds == 1..MaxRecords

\* ------------------------------------------------------- program constants
maxSize == 524288000     \* 500 * 1024 * 1024

supportedExtensions ==
  { <<".", "p", "d", "f">>, <<".", "j", "p", "g">>, <<".", "j", "p", "e", "g">>,
    <<".", "p", "n", "g">>, <<".", "b", "m", "p">>, <<".", "t", "i", "f", "f">>,
    <<".", "t", "i", "f">> }

\* ------------------------------------------------------------ undefined-s
Undefined == 0                 \* searchIndexId?: string, when absent
NoValue == "undefined"         \* tags?, categories?, description?, when absent
NoDoc == [exists |-> FALSE]    \* no item under that id / null
NoFile == [name |-> <<>>, type |-> "", size |-> 0]
NoResult == [success |-> FALSE, documentId |-> 0, error |-> "pending"]
NoExtract == [content |-> <<>>, pages |-> 0, confidence |-> 0]
NoBlob == [url |-> <<>>, blobName |-> <<>>]
NoUpdate == [field |-> "", value |-> ""]
NoChatResult == [success |-> FALSE, error |-> "pending", response |-> <<>>]
NoIndexArgs == [fileName |-> <<>>, docs |-> <<>>, chatThreadId |-> ""]
NoSession == [hasUser |-> FALSE, isAdmin |-> FALSE]
NoStats == [total |-> 0, byStatus |-> <<>>, byType |-> <<>>, totalSize |-> 0, ids |-> {}]
NoResponse == [status |-> 0, error |-> "", success |-> FALSE, documents |-> <<>>,
               stats |-> NoStats, total |-> 0]

\* ------------------------------------------------------------------ inputs
\* File names are sequences of characters.
NamePdf == <<"a", ".", "p", "d", "f">>
NamePng == <<"b", ".", "P", "N", "G">>
NameTxt == <<"a", ".", "t", "x", "t">>
NameNoDot == <<"p", "d", "f">>

Files ==
  { [name |-> NamePdf,   type |-> "application/pdf", size |-> 100],
    [name |-> NamePng,   type |-> "image/png",       size |-> maxSize],
    [name |-> NamePdf,   type |-> "application/pdf", size |-> maxSize + 1],
    [name |-> NameTxt,   type |-> "text/plain",      size |-> 100],
    [name |-> NameTxt,   type |-> "text/plain",      size |-> maxSize + 1],
    [name |-> NameNoDot, type |-> "",                size |-> 100] }

Users == {"u1"}

\* What the extraction service can return: text as character codes (already
\* trimmed by extractText), page count, confidence in percent.
ExtractResults ==
  { [content |-> <<65, 66>>,    pages |-> 2, confidence |-> 90],
    [content |-> <<>>,          pages |-> 1, confidence |-> 0],
    [content |-> <<65, 7, 66>>, pages |-> 1, confidence |-> 50] }

EditFields == {"tags", "categories", "description"}
EditValues == {"v1"}

\* ------------------------------------------------------------- validation
toLowerCase(s) ==
  [i \in 1..Len(s) |->
     CASE s[i] = "A" -> "a" [] s[i] = "B" -> "b" [] s[i] = "P" -> "p"
       [] s[i] = "N" -> "n" [] s[i] = "G" -> "g" [] s[i] = "D" -> "d"
       [] s[i] = "F" -> "f" [] s[i] = "T" -> "t" [] s[i] = "X" -> "x"
       [] OTHER -> s[i]]

\* 0-based index of the last occurrence of c in s, -1 when there is none
lastIndexOf(s, c) ==
  IF \E i \in 1..Len(s) : s[i] = c
    THEN (CHOOSE i \in 1..Len(s) :
            s[i] = c /\ \A j \in (i + 1)..Len(s) : s[j] # c) - 1
    ELSE -1

\* String.prototype.substring(start): a negative start counts as 0
substring(s, start) ==
  LET from == IF start < 0 THEN 0 ELSE IF start > Len(s) THEN Len(s) ELSE start
  IN  SubSeq(s, from + 1, Len(s))

isSupportedFileType(fileName) ==
  LET lower == toLowerCase(fileName)
      extension == substring(lower, lastIndexOf(fileName, "."))
  IN  extension \in supportedExtensions

\* faulty variant: the limit compared one byte too high
isFileSizeValidOffByOne(fileSize) == fileSize <= maxSize + 1

isFileSizeValid(fileSize) == fileSize <= maxSize

\* ------------------------------------------------------ embedding sanitizer
\* characters String.prototype.trim removes (within the ASCII range)
IsTrimmed(c) == c \in {9, 10, 11, 12, 13, 32}

RECURSIVE trimStart(_)
trimStart(s) ==
  IF s # <<>> /\ IsTrimmed(Head(s)) THEN trimStart(Tail(s)) ELSE s

RECURSIVE trimEnd(_)
trimEnd(s) ==
  IF s # <<>> /\ IsTrimmed(s[Len(s)]) THEN trimEnd(SubSeq(s, 1, Len(s) - 1)) ELSE s

trim(s) == trimEnd(trimStart(s))

\* faulty variant: DEL (0x7F) is not in the character class
hasInvalidCharsNoDel(s) ==
  \E i \in 1..Len(s) :
     \/ s[i] \in 0..8
     \/ s[i] \in {11, 12}
     \/ s[i] \in 14..31

\* /[\x00-\x08\x0B\x0C\x0E-\x1F\x7F]/
hasInvalidChars(s) ==
  \E i \in 1..Len(s) :
     \/ s[i] \in 0..8
     \/ s[i] \in {11, 12}
     \/ s[i] \in 14..31
     \/ s[i] = 127

\* generateEmbeddings throws before calling the service for such a text
embeddingRejects(text) == Len(trim(text)) = 0 \/ hasInvalidChars(text)

\* ------------------------------------------- values of type any, as strings
\* A JavaScript value handed to generateEmbeddings or found as pageContent:
\* a string (character codes), an array of strings, null, a number, or {}.
JsString(str) == [kind |-> "string", str |-> str, items |-> <<>>, num |-> 0]
JsArray(items) == [kind |-> "array", str |-> <<>>, items |-> items, num |-> 0]
JsNumber(num) == [kind |-> "number", str |-> <<>>, items |-> <<>>, num |-> num]
JsNull == [kind |-> "null", str |-> <<>>, items |-> <<>>, num |-> 0]
JsEmptyObject == [kind |-> "object", str |-> <<>>, items |-> <<>>, num |-> 0]

\* Array.prototype.join(' ')
RECURSIVE join(_)
join(items) ==
  IF items = <<>> THEN <<>>
  ELSE IF Len(items) = 1 THEN items[1]
  ELSE items[1] \o <<32>> \o join(Tail(items))

\* the conversion both functions apply to a value that is not a string:
\* an array is joined with ' ', another object goes through JSON.stringify
\* ("{}" for the empty object), anything else through String(text || '')
coerce(text) ==
  CASE text.kind = "string" -> text.str
    [] text.kind = "array" -> join(text.items)
    [] text.kind = "object" -> <<123, 125>>
    [] text.kind = "number" -> IF text.num = 0 THEN <<>> ELSE <<48 + text.num>>
    [] OTHER -> <<>>

\* the characters the texts are made of: NUL, BEL, LF, VT, space, "A", DEL
Chars == {0, 7, 10, 11, 32, 65, 127}

Strings == UNION {[1..n -> Chars] : n \in 0..MaxLen}

Texts ==
  {JsString(str) : str \in Strings}
    \cup {JsNull, JsEmptyObject, JsNumber(0), JsNumber(7),
          JsArray(<<>>), JsArray(<< <<65>>, <<65>> >>), JsArray(<< <<>>, <<>> >>),
          JsArray(<< <<65>>, <<7>> >>)}

\* ------------------------------------------------------------------- state
VARIABLES
  store,      \* metadata store: id -> item, or NoDoc
  blobs,      \* blob store: set of [blobName, originalName, lastModified]
  index,      \* search index: id -> entry, or NoDoc
  clock,      \* the last value Date.now() returned to an upload
  hist,       \* id -> the status values the stored item has taken, in order
  upc, upfile, upuser, upblob, upResult,   \* uploadAndProcessFile, per call
  bgpc, bgdoc, bgext, bgurl,               \* processDocumentInBackground
  calls,      \* id -> adapter calls of the upload and its continuation
  dpc, ddoc, dexist, dcalls, delResult, deletedOk, nDeletes,  \* deleteDocument
  epc, edoc, eupd, editResult, nEdits,                        \* edits
  touched,    \* id -> an edit or a delete was invoked on it
  genpc, genText, cleanText, genResult,          \* generateEmbeddings
  embpc, documents, contentsToEmbed, embeddings, embResult,  \* embedDocuments
  cupc, formFile, loadedDocs, splitDocuments, chatResult, nChatUploads, \* UploadDocument
  configured,       \* the environment variables of the search setup are set
  indexExists,      \* the search service holds the index
  ensExisted,       \* ... and held it when the last existence check was sent
  ensCreates,       \* create requests of the last ensureIndexIsCreated call
  createRequests,   \* create requests sent in all
  chunkSize, chunkOverlap,  \* configuration of the chunker
  dlpc,       \* downloadDocument: position of the call on each id
  dldoc,      \* ... the record its getDocument returned
  dlreads,    \* ... the blob names it asked the blob store for
  dlResult,   \* ... what the caller got
  nDownloads, \* ... calls made on each id
  analyzeCalls,      \* UploadDocument: extraction requests of the current call
  searchIndex,       \* chat search index: set of index documents
  chatDocuments,     \* chat-document records of the metadata container
  lastId,            \* uniqueId(): ids handed out so far
  ixpc,              \* IndexDocuments: position of the call
  ixArgs,            \* ... its arguments fileName, docs, chatThreadId
  documentsToIndex,  \* ... the index documents it built
  ixcalls,           \* ... the calls it made, with their outcome
  ixResult,          \* ... what it returned
  nIndexCalls,       \* ... calls made
  rmpc,              \* deleteDocuments: position of the call
  rmThread,          \* ... its argument
  documentsInChat,   \* ... what simpleSearch returned
  rmResult,          \* ... how it ended
  nRemoves,          \* ... calls made
  postpc,            \* POST /api/documents/upload: position of the request on each id
  postSession,       \* ... what getServerSession returned
  postFile,          \* ... formData.get('file')
  postResponse,      \* ... the response
  getpc,             \* GET /api/documents: position of the request
  getSession,        \* ... what getServerSession returned
  getDocs,           \* ... what getDocuments returned
  getCalls,          \* ... the service functions it called
  getResponse,       \* ... the response
  nGets              \* ... requests made

uploadVars == <<upc, upfile, upuser, upblob, upResult>>
bgVars == <<bgpc, bgdoc, bgext, bgurl>>
deleteVars == <<dpc, ddoc, dexist, dcalls, delResult, deletedOk, nDeletes>>
editVars == <<epc, edoc, eupd, editResult, nEdits>>
downloadVars == <<dlpc, dldoc, dlreads, dlResult, nDownloads>>
genVars == <<genpc, genText, cleanText, genResult>>
embVars == <<embpc, documents, contentsToEmbed, embeddings, embResult>>
ensureVars == <<indexExists, ensExisted, ensCreates, createRequests>>
cupVars == <<analyzeCalls, cupc, formFile, loadedDocs, splitDocuments, chatResult, nChatUploads,
             configured, ensureVars, chunkSize, chunkOverlap>>
ixVars == <<searchIndex, chatDocuments, lastId, ixpc, ixArgs, documentsToIndex,
           ixcalls, ixResult, nIndexCalls, rmpc, rmThread, documentsInChat,
           rmResult, nRemoves>>
routeVars == <<postpc, postSession, postFile, postResponse, getpc, getSession,
              getDocs, getCalls, getResponse, nGets>>
chatVars == <<genVars, embVars, cupVars, ixVars, routeVars>>
adminVars == <<store, blobs, index, clock, hist, uploadVars, bgVars, calls,
               deleteVars, editVars, touched, downloadVars>>
vars == <<adminVars, chatVars>>

\* no embedding function has been called
EmbeddingIdle ==
  /\ genpc = "idle"
  /\ genText = JsString(<<>>)
  /\ cleanText = <<>>
  /\ genResult = "none"
  /\ embpc = "idle"
  /\ documents = <<>>
  /\ contentsToEmbed = <<>>
  /\ embeddings = <<>>
  /\ embResult = "none"

\* the admin handlers at rest, the metadata container aside
AdminRest ==
  /\ blobs = {}
  /\ index = [d \in DocIds |-> NoDoc]
  /\ clock = 0
  /\ hist = [d \in DocIds |-> <<>>]
  /\ upc = [d \in DocIds |-> "idle"]
  /\ upfile = [d \in DocIds |-> NoFile]
  /\ upuser = [d \in DocIds |-> ""]
  /\ upblob = [d \in DocIds |-> NoBlob]
  /\ upResult = [d \in DocIds |-> NoResult]
  /\ bgpc = [d \in DocIds |-> "none"]
  /\ bgdoc = [d \in DocIds |-> NoDoc]
  /\ bgext = [d \in DocIds |-> NoExtract]
  /\ bgurl = [d \in DocIds |-> <<>>]
  /\ calls = [d \in DocIds |-> <<>>]
  /\ dpc = [d \in DocIds |-> "idle"]
  /\ ddoc = [d \in DocIds |-> NoDoc]
  /\ dexist = [d \in DocIds |-> NoDoc]
  /\ dcalls = [d \in DocIds |-> <<>>]
  /\ delResult = [d \in DocIds |-> "none"]
  /\ deletedOk = [d \in DocIds |-> FALSE]
  /\ nDeletes = [d \in DocIds |-> 0]
  /\ epc = [d \in DocIds |-> "idle"]
  /\ edoc = [d \in DocIds |-> NoDoc]
  /\ eupd = [d \in DocIds |-> NoUpdate]
  /\ editResult = [d \in DocIds |-> "none"]
  /\ nEdits = 0
  /\ touched = [d \in DocIds |-> FALSE]
  /\ dlpc = [d \in DocIds |-> "idle"]
  /\ dldoc = [d \in DocIds |-> NoDoc]
  /\ dlreads = [d \in DocIds |-> <<>>]
  /\ dlResult = [d \in DocIds |-> "none"]
  /\ nDownloads = [d \in DocIds |-> 0]

\* no chat upload has been made
ChatUploadIdle ==
  /\ cupc = "idle"
  /\ analyzeCalls = 0
  /\ formFile = NoFile
  /\ loadedDocs = <<>>
  /\ splitDocuments = <<>>
  /\ chatResult = NoChatResult
  /\ nChatUploads = 0
  /\ ensExisted = FALSE
  /\ ensCreates = 0
  /\ createRequests = 0

\* everything but the metadata container
\* no chat document has been indexed and no index call is running
ChatIndexIdle ==
  /\ searchIndex = {}
  /\ chatDocuments = {}
  /\ lastId = 0
  /\ ixpc = "idle"
  /\ ixArgs = NoIndexArgs
  /\ documentsToIndex = <<>>
  /\ ixcalls = <<>>
  /\ ixResult = NoChatResult
  /\ nIndexCalls = 0
  /\ rmpc = "idle"
  /\ rmThread = ""
  /\ documentsInChat = {}
  /\ rmResult = "none"
  /\ nRemoves = 0

\* no request has reached a route
RouteIdle ==
  /\ postpc = [d \in DocIds |-> "idle"]
  /\ postSession = [d \in DocIds |-> NoSession]
  /\ postFile = [d \in DocIds |-> NoFile]
  /\ postResponse = [d \in DocIds |-> NoResponse]
  /\ getpc = "idle"
  /\ getSession = NoSession
  /\ getDocs = <<>>
  /\ getCalls = <<>>
  /\ getResponse = NoResponse
  /\ nGets = 0

InitRest ==
  /\ AdminRest
  /\ EmbeddingIdle
  /\ ChatUploadIdle
  /\ ChatIndexIdle
  /\ RouteIdle
  /\ configured = TRUE
  /\ indexExists = FALSE
  /\ chunkSize = 1
  /\ chunkOverlap = 0

Init ==
  /\ store = [d \in DocIds |-> NoDoc]
  /\ InitRest

\* ----------------------------------------------------------------- helpers
Ev(op, ok) == [op |-> op, ok |-> ok]

Log(d, op, ok) == calls' = [calls EXCEPT ![d] = Append(@, Ev(op, ok))]

\* the two service calls of one indexDocument call: the embedding request of
\* its generateEmbedding, then the outcome of indexDocument as a whole
LogIndex(d, embedded, ok) ==
  calls' = [calls EXCEPT ![d] = @ \o <<Ev("index.embed", embedded), Ev("index", ok)>>]

\* { ...existingDoc, ...updates }
Merge(doc, updates) ==
  [f \in (DOMAIN doc) \cup (DOMAIN updates) |->
     IF f \in DOMAIN updates THEN updates[f] ELSE doc[f]]

\* container.items.create / container.item(id).replace, with the history of
\* the stored status kept alongside
Put(d, item) ==
  /\ store' = [store EXCEPT ![d] = item]
  /\ hist' = [hist EXCEPT ![d] =
                IF store[d] = NoDoc \/ store[d].status # item.status
                  THEN Append(@, item.status) ELSE @]

\* `${containerClient.url}/${blob.name}`
BlobUrl(blobName) == <<"container">> \o blobName

\* ---------------------------------------------------- uploadAndProcessFile
UnsupportedType == "Unsupported file type"
SizeTooLarge == "File size too large"

Failure(error) == [success |-> FALSE, documentId |-> 0, error |-> error]

\* faulty variant: the extension is not checked
UploadStartNoTypeCheck(d, file, user) ==
  /\ upc[d] = "idle"
  /\ \A e \in 1..(d - 1) : upc[e] # "idle"
  /\ upfile' = [upfile EXCEPT ![d] = file]
  /\ upuser' = [upuser EXCEPT ![d] = user]
  /\ IF ~isFileSizeValid(file.size)
       THEN /\ upResult' = [upResult EXCEPT ![d] = Failure(SizeTooLarge)]
            /\ upc' = [upc EXCEPT ![d] = "done"]
       ELSE /\ upc' = [upc EXCEPT ![d] = "blob"]
            /\ UNCHANGED upResult
  /\ UNCHANGED <<store, blobs, index, clock, hist, upblob, bgVars, calls,
                 deleteVars, editVars, touched>>
  /\ UNCHANGED <<downloadVars, chatVars>>

\* lines 116-134: the two validations, before any store is called
UploadStart(d, file, user) ==
  /\ upc[d] = "idle"
  /\ \A e \in 1..(d - 1) : upc[e] # "idle"
  /\ upfile' = [upfile EXCEPT ![d] = file]
  /\ upuser' = [upuser EXCEPT ![d] = user]
  /\ IF ~isSupportedFileType(file.name)
       THEN /\ upResult' = [upResult EXCEPT ![d] = Failure(UnsupportedType)]
            /\ upc' = [upc EXCEPT ![d] = "done"]
       ELSE IF ~isFileSizeValid(file.size)
         THEN /\ upResult' = [upResult EXCEPT ![d] = Failure(SizeTooLarge)]
              /\ upc' = [upc EXCEPT ![d] = "done"]
         ELSE /\ upc' = [upc EXCEPT ![d] = "blob"]
              /\ UNCHANGED upResult
  /\ UNCHANGED <<store, blobs, index, clock, hist, upblob, bgVars, calls,
                 deleteVars, editVars, touched>>
  /\ UNCHANGED <<downloadVars, chatVars>>

\* line 137, azure-blob-service.ts uploadFile
UploadBlob(d) ==
  /\ upc[d] = "blob"
  /\ \/ \E t \in {clock, clock + 1} :
          /\ t > 0
          /\ LET blobName == <<upuser[d], t>> \o upfile[d].name
                 blob == [blobName |-> blobName,
                          originalName |-> upfile[d].name,
                          lastModified |-> t]
             IN  /\ blobs' = {b \in blobs : b.blobName # blobName} \cup {blob}
                 /\ upblob' = [upblob EXCEPT ![d] =
                                 [url |-> BlobUrl(blobName), blobName |-> blobName]]
          /\ clock' = t
          /\ upc' = [upc EXCEPT ![d] = "save"]
          /\ Log(d, "blob.put", TRUE)
          /\ UNCHANGED upResult
     \/ /\ upResult' = [upResult EXCEPT ![d] = Failure("upload failed")]
        /\ upc' = [upc EXCEPT ![d] = "done"]
        /\ Log(d, "blob.put", FALSE)
        /\ UNCHANGED <<blobs, upblob, clock>>
  /\ UNCHANGED <<store, index, hist, upfile, upuser, bgVars,
                 deleteVars, editVars, touched>>
  /\ UNCHANGED <<downloadVars, chatVars>>

\* faulty variant: the record names the blob by the file name, not by the name
\* the blob write returned
NewDocumentFileNameAsBlobName(d) ==
  [exists |-> TRUE, id |-> d,
   fileName |-> upfile[d].name, fileType |-> upfile[d].type,
   fileSize |-> upfile[d].size,
   uploadedBy |-> upuser[d], uploadedAt |-> clock,
   blobUrl |-> upblob[d].url, blobName |-> upfile[d].name,
   searchIndexId |-> Undefined,
   pages |-> 0, confidence |-> 0, status |-> "uploaded",
   tags |-> NoValue, categories |-> NoValue, description |-> NoValue,
   isDeleted |-> FALSE]

\* faulty variant: the record is created with one page
NewDocumentOnePage(d) ==
  [exists |-> TRUE, id |-> d,
   fileName |-> upfile[d].name, fileType |-> upfile[d].type,
   fileSize |-> upfile[d].size,
   uploadedBy |-> upuser[d], uploadedAt |-> clock,
   blobUrl |-> upblob[d].url, blobName |-> upblob[d].blobName,
   searchIndexId |-> Undefined,
   pages |-> 1, confidence |-> 0, status |-> "uploaded",
   tags |-> NoValue, categories |-> NoValue, description |-> NoValue,
   isDeleted |-> FALSE]

\* lines 140-152: the item saveDocument creates
NewDocument(d) ==
  [exists |-> TRUE, id |-> d,
   fileName |-> upfile[d].name, fileType |-> upfile[d].type,
   fileSize |-> upfile[d].size,
   uploadedBy |-> upuser[d], uploadedAt |-> clock,
   blobUrl |-> upblob[d].url, blobName |-> upblob[d].blobName,
   searchIndexId |-> Undefined,
   pages |-> 0, confidence |-> 0, status |-> "uploaded",
   tags |-> NoValue, categories |-> NoValue, description |-> NoValue,
   isDeleted |-> FALSE]

\* faulty variant: the continuation is awaited, so the caller has no answer when the
\* record is created
UploadSaveAwaited(d) ==
  /\ upc[d] = "save"
  /\ \/ /\ Put(d, NewDocument(d))
        /\ bgpc' = [bgpc EXCEPT ![d] = "p_read"]
        /\ Log(d, "meta.create", TRUE)
        /\ UNCHANGED upResult
     \/ /\ upResult' = [upResult EXCEPT ![d] = Failure("upload failed")]
        /\ Log(d, "meta.create", FALSE)
        /\ UNCHANGED <<store, hist, bgpc>>
  /\ upc' = [upc EXCEPT ![d] = "done"]
  /\ UNCHANGED <<blobs, index, clock, upfile, upuser, upblob,
                 bgdoc, bgext, bgurl, deleteVars, editVars, touched>>
  /\ UNCHANGED <<downloadVars, chatVars>>

\* faulty variant: the continuation is started although the create failed
UploadSaveStartsAnyway(d) ==
  /\ upc[d] = "save"
  /\ \/ /\ Put(d, NewDocument(d))
        /\ bgpc' = [bgpc EXCEPT ![d] = "p_read"]
        /\ upResult' = [upResult EXCEPT ![d] =
                          [success |-> TRUE, documentId |-> d, error |-> ""]]
        /\ Log(d, "meta.create", TRUE)
     \/ /\ upResult' = [upResult EXCEPT ![d] = Failure("upload failed")]
        /\ bgpc' = [bgpc EXCEPT ![d] = "p_read"]
        /\ Log(d, "meta.create", FALSE)
        /\ UNCHANGED <<store, hist>>
  /\ upc' = [upc EXCEPT ![d] = "done"]
  /\ UNCHANGED <<blobs, index, clock, upfile, upuser, upblob,
                 bgdoc, bgext, bgurl, deleteVars, editVars, touched>>
  /\ UNCHANGED <<downloadVars, chatVars>>

\* lines 140-164: saveDocument, then the continuation is started without
\* being awaited and the result is returned in the same turn
UploadSave(d) ==
  /\ upc[d] = "save"
  /\ \/ /\ Put(d, NewDocument(d))
        /\ bgpc' = [bgpc EXCEPT ![d] = "p_read"]
        /\ upResult' = [upResult EXCEPT ![d] =
                          [success |-> TRUE, documentId |-> d, error |-> ""]]
        /\ Log(d, "meta.create", TRUE)
     \/ /\ upResult' = [upResult EXCEPT ![d] = Failure("upload failed")]
        /\ Log(d, "meta.create", FALSE)
        /\ UNCHANGED <<store, hist, bgpc>>
  /\ upc' = [upc EXCEPT ![d] = "done"]
  /\ UNCHANGED <<blobs, index, clock, upfile, upuser, upblob,
                 bgdoc, bgext, bgurl, deleteVars, editVars, touched>>
  /\ UNCHANGED <<downloadVars, chatVars>>

Upload(d) ==
  \/ \E file \in Files, user \in Users : UploadStart(d, file, user)
  \/ UploadBlob(d)
  \/ UploadSave(d)

\* ----------------------------------------------- processDocumentInBackground
\* cosmos-db-document-service.ts updateDocument is a read (line 78) followed
\* by a replace of the merged item (line 89); each is a step of its own.

bgOther == <<blobs, clock, uploadVars, deleteVars, editVars, touched>>

\* an awaited call threw inside the try block: control goes to the catch
\* block (lines 92-108), which starts updateDocument(id, {status: 'error'})
BgThrow(d, op) ==
  /\ bgpc' = [bgpc EXCEPT ![d] = "e_read"]
  /\ Log(d, op, FALSE)

\* line 42, updateDocument line 78
BgProcessingRead(d) ==
  /\ bgpc[d] = "p_read"
  /\ \/ /\ store[d] # NoDoc
        /\ bgdoc' = [bgdoc EXCEPT ![d] = store[d]]
        /\ bgpc' = [bgpc EXCEPT ![d] = "p_write"]
        /\ Log(d, "update.processing.read", TRUE)
     \/ /\ BgThrow(d, "update.processing.read")
        /\ UNCHANGED bgdoc
  /\ UNCHANGED <<store, index, hist, bgext, bgurl, bgOther>>
  /\ UNCHANGED <<downloadVars, chatVars>>

\* faulty variant: the status is not set to processing
BgProcessingWriteSkipped(d) ==
  /\ bgpc[d] = "p_write"
  /\ \/ /\ bgpc' = [bgpc EXCEPT ![d] = "extract"]
        /\ Log(d, "update.processing", TRUE)
     \/ BgThrow(d, "update.processing")
  /\ UNCHANGED <<store, hist, index, bgdoc, bgext, bgurl, bgOther>>
  /\ UNCHANGED <<downloadVars, chatVars>>

\* line 42, updateDocument lines 83-89
BgProcessingWrite(d) ==
  /\ bgpc[d] = "p_write"
  /\ \/ /\ Put(d, Merge(bgdoc[d], [status |-> "processing"]))
        /\ bgpc' = [bgpc EXCEPT ![d] = "extract"]
        /\ Log(d, "update.processing", TRUE)
     \/ /\ BgThrow(d, "update.processing")
        /\ UNCHANGED <<store, hist>>
  /\ UNCHANGED <<index, bgdoc, bgext, bgurl, bgOther>>
  /\ UNCHANGED <<downloadVars, chatVars>>

\* lines 46-50, extractText
BgExtract(d) ==
  /\ bgpc[d] = "extract"
  /\ \/ \E r \in ExtractResults :
          /\ bgext' = [bgext EXCEPT ![d] = r]
          /\ bgpc' = [bgpc EXCEPT ![d] = "embed"]
          /\ Log(d, "extract", TRUE)
     \/ /\ BgThrow(d, "extract")
        /\ UNCHANGED bgext
  /\ UNCHANGED <<store, index, hist, bgdoc, bgurl, bgOther>>
  /\ UNCHANGED <<downloadVars, chatVars>>

\* line 61, generateEmbeddings: the sanitizer throws for a text it rejects,
\* otherwise the embedding service is called and may fail
BgEmbed(d) ==
  /\ bgpc[d] = "embed"
  /\ \/ /\ ~embeddingRejects(bgext[d].content)
        /\ bgpc' = [bgpc EXCEPT ![d] = "list"]
        /\ Log(d, "embed", TRUE)
     \/ BgThrow(d, "embed")
  /\ embeddingRejects(bgext[d].content) => bgpc'[d] = "e_read"
  /\ UNCHANGED <<store, index, hist, bgdoc, bgext, bgurl, bgOther>>
  /\ UNCHANGED <<downloadVars, chatVars>>

\* azure-blob-service.ts listUserFiles: the owner's blobs, most recently
\* modified first
RECURSIVE SortedByLastModified(_)
SortedByLastModified(bs) ==
  IF bs = {} THEN <<>>
  ELSE LET b == CHOOSE x \in bs : \A y \in bs : x.lastModified >= y.lastModified
       IN  <<b>> \o SortedByLastModified(bs \ {b})

listUserFiles(userId) ==
  LET mine == {b \in blobs : b.blobName[1] = userId}
      sorted == SortedByLastModified(mine)
  IN  [i \in 1..Len(sorted) |->
         [name |-> sorted[i].originalName, url |-> BlobUrl(sorted[i].blobName)]]

\* faulty variant: the last file of the listing with that name is taken
FindUrlLast(files, fileName) ==
  IF \E i \in 1..Len(files) : files[i].name = fileName
    THEN files[CHOOSE i \in 1..Len(files) :
                 /\ files[i].name = fileName
                 /\ \A j \in (i + 1)..Len(files) : files[j].name # fileName].url
    ELSE <<>>

\* lines 74-75: .find(f => f.name === file.name)?.url || ''
FindUrl(files, fileName) ==
  IF \E i \in 1..Len(files) : files[i].name = fileName
    THEN files[CHOOSE i \in 1..Len(files) :
                 /\ files[i].name = fileName
                 /\ \A j \in 1..(i - 1) : files[j].name # fileName].url
    ELSE <<>>

\* lines 72-75
BgList(d) ==
  /\ bgpc[d] = "list"
  /\ \/ /\ bgurl' = [bgurl EXCEPT ![d] =
                       FindUrl(listUserFiles(upuser[d]), upfile[d].name)]
        /\ bgpc' = [bgpc EXCEPT ![d] = "index"]
        /\ Log(d, "blob.list", TRUE)
     \/ /\ BgThrow(d, "blob.list")
        /\ UNCHANGED bgurl
  /\ UNCHANGED <<store, index, hist, bgdoc, bgext, bgOther>>
  /\ UNCHANGED <<downloadVars, chatVars>>

\* lines 65-78
SearchDocument(d) ==
  [exists |-> TRUE, id |-> d, fileName |-> upfile[d].name,
   content |-> bgext[d].content,
   fileType |-> upfile[d].type, fileSize |-> upfile[d].size,
   uploadedBy |-> upuser[d], blobUrl |-> bgurl[d],
   pages |-> bgext[d].pages, confidence |-> bgext[d].confidence]

\* faulty variant: a failed index write is swallowed and the pipeline goes on
BgIndexSwallowed(d) ==
  /\ bgpc[d] = "index"
  /\ \/ /\ index' = [index EXCEPT ![d] = SearchDocument(d)]
        /\ LogIndex(d, TRUE, TRUE)
     \/ /\ \E embedded \in BOOLEAN : LogIndex(d, embedded, FALSE)
        /\ UNCHANGED index
  /\ bgpc' = [bgpc EXCEPT ![d] = "c_read"]
  /\ UNCHANGED <<store, hist, bgdoc, bgext, bgurl, bgOther>>
  /\ UNCHANGED <<downloadVars, chatVars>>

\* line 80, indexDocument (search service lines 73-101): it computes the
\* embedding of document.content again with its own generateEmbedding (line
\* 77; the contentVector it was given is not used), then uploads the
\* document (line 95); a failure of either is rethrown (lines 97-100)
BgIndex(d) ==
  /\ bgpc[d] = "index"
  /\ \/ /\ index' = [index EXCEPT ![d] = SearchDocument(d)]
        /\ bgpc' = [bgpc EXCEPT ![d] = "c_read"]
        /\ LogIndex(d, TRUE, TRUE)
     \/ /\ \E embedded \in BOOLEAN : LogIndex(d, embedded, FALSE)
        /\ bgpc' = [bgpc EXCEPT ![d] = "e_read"]
        /\ UNCHANGED index
  /\ UNCHANGED <<store, hist, bgdoc, bgext, bgurl, bgOther>>
  /\ UNCHANGED <<downloadVars, chatVars>>

\* line 83, updateDocument line 78
BgCompletedRead(d) ==
  /\ bgpc[d] = "c_read"
  /\ \/ /\ store[d] # NoDoc
        /\ bgdoc' = [bgdoc EXCEPT ![d] = store[d]]
        /\ bgpc' = [bgpc EXCEPT ![d] = "c_write"]
        /\ Log(d, "update.completed.read", TRUE)
     \/ /\ BgThrow(d, "update.completed.read")
        /\ UNCHANGED bgdoc
  /\ UNCHANGED <<store, index, hist, bgext, bgurl, bgOther>>
  /\ UNCHANGED <<downloadVars, chatVars>>

\* faulty variant: the completed write also stores the url found in the blob
\* listing as the record's blobUrl
CompletedUpdatesWithBlobUrl(d) ==
  [status |-> "completed", pages |-> bgext[d].pages,
   confidence |-> bgext[d].confidence, searchIndexId |-> d,
   blobUrl |-> bgurl[d]]

\* faulty variant: the completed write stores another id as searchIndexId
CompletedUpdatesOtherIndexId(d) ==
  [status |-> "completed", pages |-> bgext[d].pages,
   confidence |-> bgext[d].confidence, searchIndexId |-> d + 1]

\* lines 83-88
CompletedUpdates(d) ==
  [status |-> "completed", pages |-> bgext[d].pages,
   confidence |-> bgext[d].confidence, searchIndexId |-> d]

\* lines 83-88, updateDocument lines 83-89
BgCompletedWrite(d) ==
  /\ bgpc[d] = "c_write"
  /\ \/ /\ Put(d, Merge(bgdoc[d], CompletedUpdates(d)))
        /\ bgpc' = [bgpc EXCEPT ![d] = "done"]
        /\ Log(d, "update.completed", TRUE)
     \/ /\ BgThrow(d, "update.completed")
        /\ UNCHANGED <<store, hist>>
  /\ UNCHANGED <<index, bgdoc, bgext, bgurl, bgOther>>
  /\ UNCHANGED <<downloadVars, chatVars>>

\* line 106 in the catch block, updateDocument line 78; a throw here leaves
\* the continuation's promise rejected
BgErrorRead(d) ==
  /\ bgpc[d] = "e_read"
  /\ \/ /\ store[d] # NoDoc
        /\ bgdoc' = [bgdoc EXCEPT ![d] = store[d]]
        /\ bgpc' = [bgpc EXCEPT ![d] = "e_write"]
        /\ Log(d, "update.error.read", TRUE)
     \/ /\ bgpc' = [bgpc EXCEPT ![d] = "rejected"]
        /\ Log(d, "update.error.read", FALSE)
        /\ UNCHANGED bgdoc
  /\ UNCHANGED <<store, index, hist, bgext, bgurl, bgOther>>
  /\ UNCHANGED <<downloadVars, chatVars>>

\* lines 106-108, updateDocument lines 83-89
BgErrorWrite(d) ==
  /\ bgpc[d] = "e_write"
  /\ \/ /\ Put(d, Merge(bgdoc[d], [status |-> "error"]))
        /\ bgpc' = [bgpc EXCEPT ![d] = "done"]
        /\ Log(d, "update.error", TRUE)
     \/ /\ bgpc' = [bgpc EXCEPT ![d] = "rejected"]
        /\ Log(d, "update.error", FALSE)
        /\ UNCHANGED <<store, hist>>
  /\ UNCHANGED <<index, bgdoc, bgext, bgurl, bgOther>>
  /\ UNCHANGED <<downloadVars, chatVars>>

processDocumentInBackground(d) ==
  \/ BgProcessingRead(d)
  \/ BgProcessingWrite(d)
  \/ BgExtract(d)
  \/ BgEmbed(d)
  \/ BgList(d)
  \/ BgIndex(d)
  \/ BgCompletedRead(d)
  \/ BgCompletedWrite(d)
  \/ BgErrorRead(d)
  \/ BgErrorWrite(d)

\* ------------------------------------------------ metadata store: the reads
\* getDocument, lines 148-157: null for a missing or logically deleted item
getDocument(id) ==
  IF store[id] # NoDoc /\ ~store[id].isDeleted THEN store[id] ELSE NoDoc

\* ORDER BY c.uploadedAt DESC
RECURSIVE OrderByUploadedAtDesc(_)
OrderByUploadedAtDesc(items) ==
  IF items = {} THEN <<>>
  ELSE LET x == CHOOSE i \in items : \A j \in items : i.uploadedAt >= j.uploadedAt
       IN  <<x>> \o OrderByUploadedAtDesc(items \ {x})

Items == {store[d] : d \in {e \in DOMAIN store : store[e] # NoDoc}}

\* faulty variant: the isDeleted filter is missing
getAllDocumentsUnfiltered == OrderByUploadedAtDesc(Items)

\* WHERE c.isDeleted = false
getAllDocuments ==
  OrderByUploadedAtDesc({c \in Items : c.isDeleted = FALSE})

\* WHERE c.uploadedBy = @userId AND c.isDeleted = false
getUserDocuments(userId) ==
  OrderByUploadedAtDesc({c \in Items : c.uploadedBy = userId /\ c.isDeleted = FALSE})

\* WHERE c.fileType = @fileType AND c.isDeleted = false
getDocumentsByType(fileType) ==
  OrderByUploadedAtDesc({c \in Items : c.fileType = fileType /\ c.isDeleted = FALSE})

\* WHERE c.status = @status AND c.isDeleted = false
getDocumentsByStatus(status) ==
  OrderByUploadedAtDesc({c \in Items : c.status = status /\ c.isDeleted = FALSE})

\* stats.byStatus[k] = (stats.byStatus[k] || 0) + 1
Bump(counts, k) ==
  [x \in (DOMAIN counts) \cup {k} |->
     IF x = k THEN (IF k \in DOMAIN counts THEN counts[k] ELSE 0) + 1
     ELSE counts[x]]

RECURSIVE StatsOver(_, _)
StatsOver(resources, stats) ==
  IF resources = <<>> THEN stats
  ELSE LET doc == Head(resources)
       IN  StatsOver(Tail(resources),
             [total |-> stats.total,
              byStatus |-> Bump(stats.byStatus, doc.status),
              byType |-> Bump(stats.byType, doc.fileType),
              totalSize |-> stats.totalSize + doc.fileSize,
              ids |-> stats.ids \cup {doc.id}])

\* faulty variant: the query of the statistics has no isDeleted filter
getDocumentStatsUnfiltered ==
  LET resources == OrderByUploadedAtDesc(Items)
  IN  StatsOver(resources,
        [total |-> Len(resources), byStatus |-> <<>>, byType |-> <<>>,
         totalSize |-> 0, ids |-> {}])

\* getDocumentStats, lines 226-265; ids names the items that were counted
getDocumentStats ==
  LET resources == OrderByUploadedAtDesc({c \in Items : c.isDeleted = FALSE})
  IN  StatsOver(resources,
        [total |-> Len(resources), byStatus |-> <<>>, byType |-> <<>>,
         totalSize |-> 0, ids |-> {}])

\* ----------------------------------------------------------- deleteDocument
delOther == <<clock, hist, uploadVars, bgVars, calls, editVars>>

DLog(d, op, arg, ok) ==
  dcalls' = [dcalls EXCEPT ![d] = Append(@, [op |-> op, arg |-> arg, ok |-> ok])]

\* the catch block, lines 226-229: whatever was thrown, the caller gets an error
DeleteThrow(d) ==
  /\ dpc' = [dpc EXCEPT ![d] = "idle"]
  /\ delResult' = [delResult EXCEPT ![d] = "error"]

\* faulty variant: the record is read without looking at isDeleted
DeleteStartNoDeletedCheck(d) ==
  /\ dpc[d] = "idle"
  /\ nDeletes[d] < MaxDeletes
  /\ nDeletes' = [nDeletes EXCEPT ![d] = @ + 1]
  /\ touched' = [touched EXCEPT ![d] = TRUE]
  /\ dcalls' = [dcalls EXCEPT ![d] = <<>>]
  /\ \E document \in {store[d], NoDoc} :
       /\ ddoc' = [ddoc EXCEPT ![d] = document]
       /\ IF document = NoDoc
            THEN DeleteThrow(d)
            ELSE /\ dpc' = [dpc EXCEPT ![d] = "blob"]
                 /\ delResult' = [delResult EXCEPT ![d] = "none"]
  /\ UNCHANGED <<store, blobs, index, dexist, deletedOk, delOther>>
  /\ UNCHANGED <<downloadVars, chatVars>>

\* lines 210-213: getCosmosDocument, which answers null when its read throws
DeleteStart(d) ==
  /\ dpc[d] = "idle"
  /\ nDeletes[d] < MaxDeletes
  /\ nDeletes' = [nDeletes EXCEPT ![d] = @ + 1]
  /\ touched' = [touched EXCEPT ![d] = TRUE]
  /\ dcalls' = [dcalls EXCEPT ![d] = <<>>]
  /\ \E document \in {getDocument(d), NoDoc} :
       /\ ddoc' = [ddoc EXCEPT ![d] = document]
       /\ IF document = NoDoc
            THEN DeleteThrow(d)
            ELSE /\ dpc' = [dpc EXCEPT ![d] = "blob"]
                 /\ delResult' = [delResult EXCEPT ![d] = "none"]
  /\ UNCHANGED <<store, blobs, index, dexist, deletedOk, delOther>>
  /\ UNCHANGED <<downloadVars, chatVars>>

\* line 216, deleteFile: fails when the blob is not there
DeleteBlob(d) ==
  /\ dpc[d] = "blob"
  /\ \/ /\ \E b \in blobs : b.blobName = ddoc[d].blobName
        /\ blobs' = {b \in blobs : b.blobName # ddoc[d].blobName}
        /\ dpc' = [dpc EXCEPT ![d] =
                     IF ddoc[d].searchIndexId # Undefined THEN "search" ELSE "m_read"]
        /\ DLog(d, "blob.delete", ddoc[d].blobName, TRUE)
        /\ UNCHANGED delResult
     \/ /\ DeleteThrow(d)
        /\ DLog(d, "blob.delete", ddoc[d].blobName, FALSE)
        /\ UNCHANGED blobs
  /\ UNCHANGED <<store, index, ddoc, dexist, deletedOk, nDeletes, touched, delOther>>
  /\ UNCHANGED <<downloadVars, chatVars>>

\* lines 219-221, deleteSearchDocument
DeleteSearch(d) ==
  /\ dpc[d] = "search"
  /\ \/ /\ index' = [index EXCEPT ![ddoc[d].searchIndexId] = NoDoc]
        /\ dpc' = [dpc EXCEPT ![d] = "m_read"]
        /\ DLog(d, "index.delete", <<ddoc[d].searchIndexId>>, TRUE)
        /\ UNCHANGED delResult
     \/ /\ DeleteThrow(d)
        /\ DLog(d, "index.delete", <<ddoc[d].searchIndexId>>, FALSE)
        /\ UNCHANGED index
  /\ UNCHANGED <<store, blobs, ddoc, dexist, deletedOk, nDeletes, touched, delOther>>
  /\ UNCHANGED <<downloadVars, chatVars>>

\* line 224, cosmos-db-document-service.ts deleteDocument line 96
DeleteMetaRead(d) ==
  /\ dpc[d] = "m_read"
  /\ \/ /\ store[d] # NoDoc
        /\ dexist' = [dexist EXCEPT ![d] = store[d]]
        /\ dpc' = [dpc EXCEPT ![d] = "m_write"]
        /\ UNCHANGED <<delResult, dcalls>>
     \/ /\ DeleteThrow(d)
        /\ DLog(d, "meta.delete", <<d>>, FALSE)
        /\ UNCHANGED dexist
  /\ UNCHANGED <<store, blobs, index, ddoc, deletedOk, nDeletes, touched,
                 delOther>>
  /\ UNCHANGED <<downloadVars, chatVars>>

\* cosmos-db-document-service.ts deleteDocument lines 101-104
DeleteMetaWrite(d) ==
  /\ dpc[d] = "m_write"
  /\ \/ /\ Put(d, [dexist[d] EXCEPT !.isDeleted = TRUE])
        /\ dpc' = [dpc EXCEPT ![d] = "idle"]
        /\ delResult' = [delResult EXCEPT ![d] = "ok"]
        /\ deletedOk' = [deletedOk EXCEPT ![d] = TRUE]
        /\ DLog(d, "meta.delete", <<d>>, TRUE)
     \/ /\ DeleteThrow(d)
        /\ DLog(d, "meta.delete", <<d>>, FALSE)
        /\ UNCHANGED <<store, hist, deletedOk>>
  /\ UNCHANGED <<blobs, index, clock, ddoc, dexist, nDeletes, touched,
                 uploadVars, bgVars, calls, editVars>>
  /\ UNCHANGED <<downloadVars, chatVars>>

deleteDocument(d) ==
  \/ DeleteStart(d)
  \/ DeleteBlob(d)
  \/ DeleteSearch(d)
  \/ DeleteMetaRead(d)
  \/ DeleteMetaWrite(d)

\* ------- updateDocumentTags / updateDocumentCategories / updateDocumentDescription
\* cosmos-db-document-service.ts lines 268-280: updateDocument(id, {field: value});
\* the read of updateDocument (line 78)
EditStart(d, field, value) ==
  /\ epc[d] = "idle"
  /\ nEdits < MaxEdits
  /\ nEdits' = nEdits + 1
  /\ touched' = [touched EXCEPT ![d] = TRUE]
  /\ \/ /\ store[d] # NoDoc
        /\ edoc' = [edoc EXCEPT ![d] = store[d]]
        /\ eupd' = [eupd EXCEPT ![d] = [field |-> field, value |-> value]]
        /\ epc' = [epc EXCEPT ![d] = "write"]
        /\ editResult' = [editResult EXCEPT ![d] = "none"]
     \/ /\ editResult' = [editResult EXCEPT ![d] = "error"]
        /\ UNCHANGED <<edoc, eupd, epc>>
  /\ UNCHANGED <<store, blobs, index, clock, hist, uploadVars, bgVars, calls,
                 deleteVars>>
  /\ UNCHANGED <<downloadVars, chatVars>>

\* faulty variant: the replace of an edit writes the initial status back
EditWriteResetsStatus(d) ==
  /\ epc[d] = "write"
  /\ \/ /\ Put(d, Merge(edoc[d], [f \in {eupd[d].field, "status"} |->
                                   IF f = "status" THEN "uploaded" ELSE eupd[d].value]))
        /\ editResult' = [editResult EXCEPT ![d] = "ok"]
     \/ /\ editResult' = [editResult EXCEPT ![d] = "error"]
        /\ UNCHANGED <<store, hist>>
  /\ epc' = [epc EXCEPT ![d] = "idle"]
  /\ UNCHANGED <<blobs, index, clock, edoc, eupd, nEdits, touched,
                 uploadVars, bgVars, calls, deleteVars>>
  /\ UNCHANGED <<downloadVars, chatVars>>

\* faulty variant: the replace is conditional on the record being the one
\* that was read (an ETag check)
EditWriteIfUnchanged(d) ==
  /\ epc[d] = "write"
  /\ \/ /\ store[d] = edoc[d]
        /\ Put(d, Merge(edoc[d], [f \in {eupd[d].field} |-> eupd[d].value]))
        /\ editResult' = [editResult EXCEPT ![d] = "ok"]
     \/ /\ editResult' = [editResult EXCEPT ![d] = "error"]
        /\ UNCHANGED <<store, hist>>
  /\ epc' = [epc EXCEPT ![d] = "idle"]
  /\ UNCHANGED <<blobs, index, clock, edoc, eupd, nEdits, touched,
                 uploadVars, bgVars, calls, deleteVars>>
  /\ UNCHANGED <<downloadVars, chatVars>>

\* the replace of updateDocument (lines 83-89)
EditWrite(d) ==
  /\ epc[d] = "write"
  /\ \/ /\ Put(d, Merge(edoc[d], [f \in {eupd[d].field} |-> eupd[d].value]))
        /\ editResult' = [editResult EXCEPT ![d] = "ok"]
     \/ /\ editResult' = [editResult EXCEPT ![d] = "error"]
        /\ UNCHANGED <<store, hist>>
  /\ epc' = [epc EXCEPT ![d] = "idle"]
  /\ UNCHANGED <<blobs, index, clock, edoc, eupd, nEdits, touched,
                 uploadVars, bgVars, calls, deleteVars>>
  /\ UNCHANGED <<downloadVars, chatVars>>

updateDocumentField(d) ==
  \/ \E field \in EditFields, value \in EditValues : EditStart(d, field, value)
  \/ EditWrite(d)

\* ------------------------------------------------------- downloadDocument
\* document-management-service.ts lines 233-256, one step per await

downloadOther ==
  <<store, blobs, index, clock, hist, uploadVars, bgVars, calls, deleteVars,
    editVars, touched>>

\* line 239: getDocument answers null for a missing item, a logically
\* deleted item and a failed read; lines 240-242 throw on null, and the
\* catch (lines 252-255) rethrows to the caller
DownloadStart(d) ==
  /\ dlpc[d] = "idle"
  /\ nDownloads[d] < MaxDownloads
  /\ nDownloads' = [nDownloads EXCEPT ![d] = @ + 1]
  /\ dlreads' = [dlreads EXCEPT ![d] = <<>>]
  /\ \E document \in {getDocument(d), NoDoc} :
       IF document = NoDoc
         THEN /\ dlResult' = [dlResult EXCEPT ![d] = "error"]
              /\ UNCHANGED <<dlpc, dldoc>>
         ELSE /\ dldoc' = [dldoc EXCEPT ![d] = document]
              /\ dlpc' = [dlpc EXCEPT ![d] = "blob"]
              /\ dlResult' = [dlResult EXCEPT ![d] = "none"]
  /\ UNCHANGED downloadOther
  /\ UNCHANGED chatVars

\* faulty variant: the blob is looked up by the file name of the record
DownloadBlobByFileName(d) ==
  /\ dlpc[d] = "blob"
  /\ dlreads' = [dlreads EXCEPT ![d] = Append(@, dldoc[d].fileName)]
  /\ \/ /\ \E b \in blobs : b.blobName = dldoc[d].fileName
        /\ dlpc' = [dlpc EXCEPT ![d] = "props"]
        /\ UNCHANGED dlResult
     \/ /\ dlpc' = [dlpc EXCEPT ![d] = "idle"]
        /\ dlResult' = [dlResult EXCEPT ![d] = "error"]
  /\ UNCHANGED <<dldoc, nDownloads, downloadOther>>
  /\ UNCHANGED chatVars

\* line 244, downloadFile lines 56-62: blockBlobClient(blobName).download();
\* a missing blob or a failed request throws
DownloadBlob(d) ==
  /\ dlpc[d] = "blob"
  /\ dlreads' = [dlreads EXCEPT ![d] = Append(@, dldoc[d].blobName)]
  /\ \/ /\ \E b \in blobs : b.blobName = dldoc[d].blobName
        /\ dlpc' = [dlpc EXCEPT ![d] = "props"]
        /\ UNCHANGED dlResult
     \/ /\ dlpc' = [dlpc EXCEPT ![d] = "idle"]
        /\ dlResult' = [dlResult EXCEPT ![d] = "error"]
  /\ UNCHANGED <<dldoc, nDownloads, downloadOther>>
  /\ UNCHANGED chatVars

\* downloadFile lines 76-83: getProperties of the same blob client, then the
\* result is returned (lines 246-250)
DownloadProperties(d) ==
  /\ dlpc[d] = "props"
  /\ dlreads' = [dlreads EXCEPT ![d] = Append(@, dldoc[d].blobName)]
  /\ \/ /\ \E b \in blobs : b.blobName = dldoc[d].blobName
        /\ dlResult' = [dlResult EXCEPT ![d] = "ok"]
     \/ dlResult' = [dlResult EXCEPT ![d] = "error"]
  /\ dlpc' = [dlpc EXCEPT ![d] = "idle"]
  /\ UNCHANGED <<dldoc, nDownloads, downloadOther>>
  /\ UNCHANGED chatVars

downloadDocument(d) ==
  \/ DownloadStart(d)
  \/ DownloadBlob(d)
  \/ DownloadProperties(d)

\* ------------------------------------------------------ generateEmbeddings
\* bing.ts generateEmbeddings, up to the call of the embedding service: the
\* conversion, the two checks that throw, the trimmed text that is sent
GenerateStart(text) ==
  /\ genpc = "idle"
  /\ embpc = "idle"
  /\ genText' = text
  /\ LET textStr == coerce(text)
     IN  IF embeddingRejects(textStr)
           THEN /\ cleanText' = <<>>
                /\ genResult' = "rejected"
                /\ genpc' = "done"
           ELSE /\ cleanText' = trim(textStr)
                /\ genResult' = "none"
                /\ genpc' = "called"
  /\ UNCHANGED <<adminVars, embVars, cupVars, ixVars, routeVars>>

\* client.embeddings.create answers with a vector or throws
GenerateReturn ==
  /\ genpc = "called"
  /\ \E r \in {"ok", "failed"} : genResult' = r
  /\ genpc' = "done"
  /\ UNCHANGED <<genText, cleanText, adminVars, embVars, cupVars, ixVars,
                 routeVars>>

generateEmbeddings ==
  \/ \E text \in Texts : GenerateStart(text)
  \/ GenerateReturn

\* ---------------------------------------------------------- embedDocuments
\* chat-api-web.ts embedDocuments.  A document is its pageContent and its
\* embedding, 0 standing for the empty array it is created with; the j-th
\* vector of the service's answer is written j.
NoEmbedding == 0

Contents ==
  { JsString(<<65>>), JsString(<<>>), JsString(<<32, 65, 32>>),
    JsString(<<11, 65>>), JsString(<<65, 7, 65>>), JsNull }

Batches ==
  UNION {[1..n -> {[pageContent |-> c, embedding |-> NoEmbedding] : c \in Contents}]
           : n \in 0..MaxBatch}

\* the predicate of .filter(...): not empty after trim, and no control
\* character in the string as it is (before trim)
passesFilter(content) ==
  LET contentStr == coerce(content)
  IN  ~(Len(contentStr) = 0 \/ Len(trim(contentStr)) = 0) /\ ~hasInvalidChars(contentStr)

\* .map(d => d.pageContent).filter(...).map(... contentStr.trim())
RECURSIVE filterAndTrim(_)
filterAndTrim(docs) ==
  IF docs = <<>> THEN <<>>
  ELSE (IF passesFilter(docs[1].pageContent)
          THEN <<trim(coerce(docs[1].pageContent))>> ELSE <<>>)
         \o filterAndTrim(Tail(docs))

\* the condition of the assignment loop: the string is trimmed first and the
\* control characters are looked for in the trimmed string
assignable(content) ==
  LET contentStr == trim(coerce(content))
  IN  Len(contentStr) > 0 /\ ~hasInvalidChars(contentStr)

\* documents.forEach(...) with its counter embeddingIndex (0-based)
RECURSIVE assignEmbeddings(_, _, _)
assignEmbeddings(docs, data, embeddingIndex) ==
  IF docs = <<>> THEN <<>>
  ELSE IF assignable(docs[1].pageContent) /\ embeddingIndex < Len(data)
    THEN <<[docs[1] EXCEPT !.embedding = data[embeddingIndex + 1]]>>
           \o assignEmbeddings(Tail(docs), data, embeddingIndex + 1)
    ELSE <<docs[1]>> \o assignEmbeddings(Tail(docs), data, embeddingIndex)

\* up to the call of the embedding service; with nothing to embed the
\* function returns before calling it
EmbedStart(docs) ==
  /\ embpc = "idle"
  /\ genpc = "idle"
  /\ documents' = docs
  /\ contentsToEmbed' = filterAndTrim(docs)
  /\ embeddings' = <<>>
  /\ IF filterAndTrim(docs) = <<>>
       THEN /\ embpc' = "done"
            /\ embResult' = "ok"
       ELSE /\ embpc' = "called"
            /\ embResult' = "none"
  /\ UNCHANGED <<adminVars, genVars, cupVars, ixVars, routeVars>>

\* openai.embeddings.create throws, or answers with some number of vectors
\* (one per input, one less or one more); then the assignment loop runs
EmbedReturn ==
  /\ embpc = "called"
  /\ \/ /\ embResult' = "failed"
        /\ UNCHANGED <<documents, embeddings>>
     \/ \E n \in {Len(contentsToEmbed) - 1, Len(contentsToEmbed),
                  Len(contentsToEmbed) + 1} :
          /\ embeddings' = [j \in 1..n |-> j]
          /\ documents' = assignEmbeddings(documents, [j \in 1..n |-> j], 0)
          /\ embResult' = "ok"
  /\ embpc' = "done"
  /\ UNCHANGED <<contentsToEmbed, adminVars, genVars, cupVars, ixVars, routeVars>>

embedDocuments ==
  \/ \E docs \in Batches : EmbedStart(docs)
  \/ EmbedReturn

\* One call of one of the two embedding functions, for every argument.
EmbeddingNext == generateEmbeddings \/ embedDocuments

EmbeddingSpec == Init /\ [][EmbeddingNext]_vars

\* ------------------------------------------------------------ UploadDocument
\* chat-document-service.ts UploadDocument: ensureSearchIsConfigured (which
\* ends with ensureIndexIsCreated), LoadFile, chunkDocumentWithOverlap.
MAX_DOCUMENT_SIZE == 20000000

chatSupportedExtensions ==
  supportedExtensions \cup
    { <<".", "h", "e", "i", "c">>, <<".", "h", "e", "i", "f">>,
      <<".", "w", "e", "b", "p">>, <<".", "g", "i", "f">> }

\* formData.get("file"): null (NoFile), or a file
FormFiles ==
  { NoFile,
    [name |-> NamePdf, type |-> "application/pdf", size |-> 100],
    [name |-> NamePdf, type |-> "application/pdf", size |-> MAX_DOCUMENT_SIZE],
    [name |-> NamePdf, type |-> "application/pdf", size |-> MAX_DOCUMENT_SIZE + 1],
    [name |-> NameTxt, type |-> "text/plain",      size |-> 100] }

\* the paragraphs the extraction returns, as character codes ("A", "B")
Paragraphs == UNION {[1..n -> {65, 66}] : n \in 0..2}
ParagraphLists == UNION {[1..n -> Paragraphs] : n \in 0..MaxParagraphs}

\* docs.join("\n")
RECURSIVE joinLines(_)
joinLines(docs) ==
  IF docs = <<>> THEN <<>>
  ELSE IF Len(docs) = 1 THEN docs[1]
  ELSE docs[1] \o <<10>> \o joinLines(Tail(docs))

\* faulty variant: the window advances by the whole chunk size, so the text
\* between two chunks that should overlap is cut
RECURSIVE chunksFromNoOverlap(_, _, _, _)
chunksFromNoOverlap(text, start, size, overlap) ==
  <<SubSeq(text, start + 1, IF start + size < Len(text) THEN start + size ELSE Len(text))>>
    \o (IF start + size < Len(text)
          THEN chunksFromNoOverlap(text, start + size, size, overlap)
          ELSE <<>>)

\* The chunker (./text-chunk): windows of `size` characters, each starting
\* size - overlap characters after the one before, until the text is covered.
RECURSIVE chunksFrom(_, _, _, _)
chunksFrom(text, start, size, overlap) ==
  <<SubSeq(text, start + 1, IF start + size < Len(text) THEN start + size ELSE Len(text))>>
    \o (IF start + size < Len(text)
          THEN chunksFrom(text, start + size - overlap, size, overlap)
          ELSE <<>>)

chunkDocumentWithOverlap(text) == chunksFrom(text, 0, chunkSize, chunkOverlap)

ChatFailure(error) == [success |-> FALSE, error |-> error, response |-> <<>>]

cupOther == <<adminVars, genVars, embVars, ixVars, routeVars>>

\* lines 27-32 and ensureSearchIsConfigured up to its last line: a missing
\* environment variable throws
ChatUploadStart(file) ==
  /\ cupc \in {"idle", "done"}
  /\ nChatUploads < MaxChatUploads
  /\ nChatUploads' = nChatUploads + 1
  /\ formFile' = file
  /\ loadedDocs' = <<>>
  /\ splitDocuments' = <<>>
  /\ ensCreates' = 0
  /\ analyzeCalls' = 0
  /\ IF configured
       THEN /\ cupc' = "check"
            /\ chatResult' = NoChatResult
       ELSE /\ cupc' = "done"
            /\ chatResult' = ChatFailure("not configured")
  /\ UNCHANGED <<configured, indexExists, ensExisted, createRequests, chunkSize,
                 chunkOverlap, cupOther>>

\* ensureIndexIsCreated, the GET of the index: an answer other than 2xx and a
\* failed request both throw, and the catch block goes on to create
EnsureCheck ==
  /\ cupc = "check"
  /\ ensExisted' = indexExists
  /\ \/ /\ indexExists
        /\ cupc' = "load"
     \/ cupc' = "create"
  /\ UNCHANGED <<formFile, loadedDocs, splitDocuments, chatResult, nChatUploads,
                 configured, indexExists, ensCreates, createRequests, chunkSize,
                 chunkOverlap, analyzeCalls, cupOther>>

\* createCogSearchIndex, the POST: it creates an index that is absent; when
\* it throws, ensureIndexIsCreated throws and UploadDocument returns the error
EnsureCreate ==
  /\ cupc = "create"
  /\ ensCreates' = ensCreates + 1
  /\ createRequests' = createRequests + 1
  /\ \/ /\ ~indexExists
        /\ indexExists' = TRUE
        /\ cupc' = "load"
        /\ UNCHANGED chatResult
     \/ /\ cupc' = "done"
        /\ chatResult' = ChatFailure("Azure Cognitive Search Error")
        /\ UNCHANGED indexExists
  /\ UNCHANGED <<formFile, loadedDocs, splitDocuments, nChatUploads, configured,
                 ensExisted, chunkSize, chunkOverlap, analyzeCalls, cupOther>>

\* faulty variant: the size is checked after the extraction request
ChatLoadFileSizeCheckedLate ==
  /\ cupc = "load"
  /\ IF formFile = NoFile
       THEN /\ chatResult' = ChatFailure("no file")
            /\ cupc' = "done"
            /\ UNCHANGED <<loadedDocs, analyzeCalls>>
     ELSE IF substring(toLowerCase(formFile.name), lastIndexOf(formFile.name, "."))
               \notin chatSupportedExtensions
       THEN /\ chatResult' = ChatFailure("unsupported format")
            /\ cupc' = "done"
            /\ UNCHANGED <<loadedDocs, analyzeCalls>>
     ELSE /\ analyzeCalls' = analyzeCalls + 1
          /\ IF ~(formFile.size < MAX_DOCUMENT_SIZE)
               THEN /\ chatResult' = ChatFailure("file too large")
                    /\ cupc' = "done"
                    /\ UNCHANGED loadedDocs
               ELSE \/ \E docs \in ParagraphLists :
                         /\ loadedDocs' = docs
                         /\ cupc' = "chunk"
                         /\ UNCHANGED chatResult
                    \/ /\ chatResult' = ChatFailure("Document Intelligence error")
                       /\ cupc' = "done"
                       /\ UNCHANGED loadedDocs
  /\ UNCHANGED <<formFile, splitDocuments, nChatUploads, configured, ensureVars,
                 chunkSize, chunkOverlap, cupOther>>

\* LoadFile: no file, a file of another format and a file of
\* MAX_DOCUMENT_SIZE bytes or more throw before any extraction request;
\* otherwise the extraction is requested (beginAnalyzeDocument, line 84) and
\* answers with the paragraphs or throws
ChatLoadFile ==
  /\ cupc = "load"
  /\ IF formFile = NoFile
       THEN /\ chatResult' = ChatFailure("no file")
            /\ cupc' = "done"
            /\ UNCHANGED <<loadedDocs, analyzeCalls>>
     ELSE IF substring(toLowerCase(formFile.name), lastIndexOf(formFile.name, "."))
               \notin chatSupportedExtensions
       THEN /\ chatResult' = ChatFailure("unsupported format")
            /\ cupc' = "done"
            /\ UNCHANGED <<loadedDocs, analyzeCalls>>
     ELSE IF ~(formFile.size < MAX_DOCUMENT_SIZE)
       THEN /\ chatResult' = ChatFailure("file too large")
            /\ cupc' = "done"
            /\ UNCHANGED <<loadedDocs, analyzeCalls>>
     ELSE /\ analyzeCalls' = analyzeCalls + 1
          /\ \/ \E docs \in ParagraphLists :
                  /\ loadedDocs' = docs
                  /\ cupc' = "chunk"
                  /\ UNCHANGED chatResult
             \/ /\ chatResult' = ChatFailure("Document Intelligence error")
                /\ cupc' = "done"
                /\ UNCHANGED loadedDocs
  /\ UNCHANGED <<formFile, splitDocuments, nChatUploads, configured, ensureVars,
                 chunkSize, chunkOverlap, cupOther>>

\* lines 37-43: the chunks are the response
ChatChunk ==
  /\ cupc = "chunk"
  /\ splitDocuments' = chunkDocumentWithOverlap(joinLines(loadedDocs))
  /\ chatResult' = [success |-> TRUE, error |-> "",
                    response |-> chunkDocumentWithOverlap(joinLines(loadedDocs))]
  /\ cupc' = "done"
  /\ UNCHANGED <<formFile, loadedDocs, nChatUploads, configured, ensureVars,
                 chunkSize, chunkOverlap, analyzeCalls, cupOther>>

UploadDocument ==
  \/ \E file \in FormFiles : ChatUploadStart(file)
  \/ EnsureCheck
  \/ EnsureCreate
  \/ ChatLoadFile
  \/ ChatChunk

\* Chat uploads, one after the other, for every configuration of the chunker
\* and with the index present or absent at the start.
ChatUploadInit ==
  /\ store = [d \in DocIds |-> NoDoc]
  /\ AdminRest
  /\ EmbeddingIdle
  /\ ChatUploadIdle
  /\ ChatIndexIdle
  /\ RouteIdle
  /\ configured \in BOOLEAN
  /\ indexExists \in BOOLEAN
  /\ chunkSize \in 1..MaxChunkSize
  /\ chunkOverlap \in 0..(chunkSize - 1)

ChatUploadSpec == ChatUploadInit /\ [][UploadDocument]_vars

\* ------------------------------------- IndexDocuments and deleteDocuments
\* chat-document-service.ts lines 135-200 and chat-api-web.ts lines 213-347,
\* one step per awaited service call

TopDefault == 10
Threads == {"t1", "t2"}
Chunks == {JsString(<<65>>), JsString(<<>>)}
ChunkLists == UNION {[1..n -> Chunks] : n \in 0..MaxChunks}

ixOther == <<adminVars, genVars, embVars, cupVars, routeVars>>
rmVars == <<rmpc, rmThread, documentsInChat, rmResult, nRemoves>>
ixCallVars == <<ixpc, ixArgs, documentsToIndex, ixcalls, ixResult, nIndexCalls>>

IxLog(op, ok) == ixcalls' = Append(ixcalls, Ev(op, ok))

\* the catch of IndexDocuments, lines 191-199
IxFail(op) ==
  /\ IxLog(op, FALSE)
  /\ ixResult' = ChatFailure(op)
  /\ ixpc' = "done"

\* faulty variant: a chunk without text gets no index document
buildDocumentsSkippingEmpty(fileName, docs, chatThreadId, firstId) ==
  LET kept == SelectSeq(docs, LAMBDA c : Len(coerce(c)) > 0)
  IN  [i \in 1..Len(kept) |->
         [id |-> firstId + i - 1, chatThreadId |-> chatThreadId,
          pageContent |-> JsString(coerce(kept[i])), metadata |-> fileName,
          embedding |-> NoEmbedding]]

\* lines 143-174: one docToAdd per doc, pushed in order; pageContent is the
\* doc as a string, embedding starts as []
buildDocuments(fileName, docs, chatThreadId, firstId) ==
  [i \in 1..Len(docs) |->
     [id |-> firstId + i - 1, chatThreadId |-> chatThreadId,
      pageContent |-> JsString(coerce(docs[i])), metadata |-> fileName,
      embedding |-> NoEmbedding]]

\* lines 141-175; userHashedId (line 166) throws without a session
IndexStart(fileName, docs, chatThreadId) ==
  /\ ixpc = "idle"
  /\ nIndexCalls < MaxIndexCalls
  /\ nIndexCalls' = nIndexCalls + 1
  /\ ixArgs' = [fileName |-> fileName, docs |-> docs, chatThreadId |-> chatThreadId]
  /\ \/ /\ documentsToIndex' = buildDocuments(fileName, docs, chatThreadId, lastId + 1)
        /\ lastId' = lastId + Len(docs)
        /\ ixpc' = "embed"
        /\ ixcalls' = <<>>
        /\ UNCHANGED ixResult
     \/ /\ docs # <<>>
        /\ ixcalls' = <<Ev("session", FALSE)>>
        /\ ixResult' = ChatFailure("session")
        /\ ixpc' = "done"
        /\ UNCHANGED <<documentsToIndex, lastId>>
  /\ UNCHANGED <<searchIndex, chatDocuments, rmVars, ixOther>>

\* indexDocuments line 294: embedDocuments fills the embedding of every
\* document its filter accepts, or throws when the embedding service fails
IndexEmbed ==
  /\ ixpc = "embed"
  /\ \/ /\ documentsToIndex' =
             assignEmbeddings(documentsToIndex,
                              [j \in 1..Len(filterAndTrim(documentsToIndex)) |-> j], 0)
        /\ IxLog("embed", TRUE)
        /\ ixpc' = "post"
        /\ UNCHANGED ixResult
     \/ /\ filterAndTrim(documentsToIndex) # <<>>
        /\ IxFail("embed")
        /\ UNCHANGED documentsToIndex
  /\ UNCHANGED <<searchIndex, chatDocuments, lastId, ixArgs, nIndexCalls, rmVars, ixOther>>

\* indexDocuments lines 301-304: POST docs/index with all the documents
IndexPost ==
  /\ ixpc = "post"
  /\ \/ /\ searchIndex' = searchIndex \cup {documentsToIndex[i] : i \in 1..Len(documentsToIndex)}
        /\ IxLog("index", TRUE)
        /\ ixpc' = "upsert"
        /\ UNCHANGED ixResult
     \/ /\ IxFail("index")
        /\ UNCHANGED searchIndex
  /\ UNCHANGED <<chatDocuments, lastId, ixArgs, documentsToIndex, nIndexCalls, rmVars, ixOther>>

\* lines 183-189: UpsertChatDocument (lines 247-263), then the result
IndexUpsert ==
  /\ ixpc = "upsert"
  /\ \/ /\ chatDocuments' = chatDocuments \cup
             {[id |-> lastId + 1, chatThreadId |-> ixArgs.chatThreadId,
               name |-> ixArgs.fileName]}
        /\ lastId' = lastId + 1
        /\ IxLog("upsert", TRUE)
        /\ ixResult' = [success |-> TRUE, error |-> "", response |-> documentsToIndex]
        /\ ixpc' = "done"
     \/ /\ IxFail("upsert")
        /\ UNCHANGED <<chatDocuments, lastId>>
  /\ UNCHANGED <<searchIndex, ixArgs, documentsToIndex, nIndexCalls, rmVars, ixOther>>

IndexDocuments ==
  \/ \E docs \in ChunkLists, chatThreadId \in Threads :
       IndexStart(NamePdf, docs, chatThreadId)
  \/ IndexEmbed
  \/ IndexPost
  \/ IndexUpsert

\* the documents of the index that the filter chatThreadId eq '...' selects
InThread(chatThreadId) == {x \in searchIndex : x.chatThreadId = chatThreadId}

\* simpleSearch, lines 213-235: the request carries top: filter?.top || 10,
\* and deleteDocuments passes no top; the service answers with at most that
\* many of the selected documents
simpleSearch(chatThreadId) ==
  {found \in SUBSET InThread(chatThreadId) :
     Cardinality(found) =
       IF Cardinality(InThread(chatThreadId)) < TopDefault
         THEN Cardinality(InThread(chatThreadId)) ELSE TopDefault}

\* deleteDocuments lines 323-325
RemoveStart(chatThreadId) ==
  /\ rmpc = "idle"
  /\ nRemoves < MaxRemoves
  /\ nRemoves' = nRemoves + 1
  /\ rmThread' = chatThreadId
  /\ \/ \E found \in simpleSearch(chatThreadId) :
          /\ documentsInChat' = found
          /\ rmpc' = "post"
          /\ rmResult' = "none"
     \/ /\ rmResult' = "error"
        /\ UNCHANGED <<rmpc, documentsInChat>>
  /\ UNCHANGED <<searchIndex, chatDocuments, lastId, ixCallVars, ixOther>>

\* deleteDocuments lines 327-346: one delete action per document found, in
\* one POST
RemovePost ==
  /\ rmpc = "post"
  /\ \/ /\ searchIndex' = {x \in searchIndex : \A f \in documentsInChat : f.id # x.id}
        /\ rmResult' = "ok"
     \/ /\ rmResult' = "error"
        /\ UNCHANGED searchIndex
  /\ rmpc' = "idle"
  /\ UNCHANGED <<rmThread, documentsInChat, nRemoves>>
  /\ UNCHANGED <<chatDocuments, lastId, ixCallVars, ixOther>>

deleteDocuments ==
  \/ \E chatThreadId \in Threads : RemoveStart(chatThreadId)
  \/ RemovePost

\* a thread that already has n chunks of one file in the index
IndexedThread(n) ==
  {[id |-> i, chatThreadId |-> "t1", pageContent |-> JsString(<<65>>),
    metadata |-> NamePdf, embedding |-> 1] : i \in 1..n}

ChatIndexInit ==
  /\ store = [d \in DocIds |-> NoDoc]
  /\ AdminRest
  /\ EmbeddingIdle
  /\ ChatUploadIdle
  /\ RouteIdle
  /\ configured = TRUE /\ indexExists = TRUE
  /\ chunkSize = 1 /\ chunkOverlap = 0
  /\ \E n \in {0, 1, TopDefault, MaxThreadChunks} :
       /\ searchIndex = IndexedThread(n)
       /\ chatDocuments = IF n = 0 THEN {}
                          ELSE {[id |-> n + 1, chatThreadId |-> "t1", name |-> NamePdf]}
       /\ lastId = IF n = 0 THEN 0 ELSE n + 1
  /\ ixpc = "idle" /\ ixArgs = NoIndexArgs /\ documentsToIndex = <<>>
  /\ ixcalls = <<>> /\ ixResult = NoChatResult /\ nIndexCalls = 0
  /\ rmpc = "idle" /\ rmThread = "" /\ documentsInChat = {}
  /\ rmResult = "none" /\ nRemoves = 0

ChatIndexNext == IndexDocuments \/ deleteDocuments

ChatIndexSpec == ChatIndexInit /\ [][ChatIndexNext]_vars

\* ------------------------------------------------------------ the routes
\* app/api/documents/upload/route.ts POST and app/api/documents/route.ts GET,
\* one step per awaited service call

Sessions ==
  { NoSession,
    [hasUser |-> TRUE, isAdmin |-> FALSE],
    [hasUser |-> TRUE, isAdmin |-> TRUE] }

RouteFiles ==
  { NoFile,
    [name |-> NamePdf, type |-> "application/pdf", size |-> 100],
    [name |-> NameTxt, type |-> "text/plain",      size |-> 100] }

ErrorResponse(status, error) ==
  [NoResponse EXCEPT !.status = status, !.error = error]

postOther == <<getpc, getSession, getDocs, getCalls, getResponse, nGets>>
getOther == <<postpc, postSession, postFile, postResponse>>
routeOther == <<adminVars, genVars, embVars, cupVars, ixVars>>

\* faulty variant: the isAdmin check is missing
PostStartNoAdminCheck(d, session, file) ==
  /\ postpc[d] = "idle"
  /\ upc[d] = "idle"
  /\ \A e \in 1..(d - 1) : postpc[e] # "idle"
  /\ postSession' = [postSession EXCEPT ![d] = session]
  /\ IF ~session.hasUser
       THEN /\ postResponse' = [postResponse EXCEPT ![d] = ErrorResponse(401, "auth required")]
            /\ postpc' = [postpc EXCEPT ![d] = "done"]
            /\ UNCHANGED postFile
     ELSE /\ postFile' = [postFile EXCEPT ![d] = file]
          /\ IF file = NoFile
               THEN /\ postResponse' = [postResponse EXCEPT ![d] = ErrorResponse(400, "no file")]
                    /\ postpc' = [postpc EXCEPT ![d] = "done"]
               ELSE /\ postpc' = [postpc EXCEPT ![d] = "call"]
                    /\ UNCHANGED postResponse
  /\ UNCHANGED <<postOther, routeOther>>

\* upload/route.ts lines 9-26: the session, the two checks on it, the file
PostStart(d, session, file) ==
  /\ postpc[d] = "idle"
  /\ upc[d] = "idle"
  /\ \A e \in 1..(d - 1) : postpc[e] # "idle"
  /\ postSession' = [postSession EXCEPT ![d] = session]
  /\ IF ~session.hasUser
       THEN /\ postResponse' = [postResponse EXCEPT ![d] = ErrorResponse(401, "auth required")]
            /\ postpc' = [postpc EXCEPT ![d] = "done"]
            /\ UNCHANGED postFile
     ELSE IF ~session.isAdmin
       THEN /\ postResponse' = [postResponse EXCEPT ![d] = ErrorResponse(403, "admin required")]
            /\ postpc' = [postpc EXCEPT ![d] = "done"]
            /\ UNCHANGED postFile
     ELSE /\ postFile' = [postFile EXCEPT ![d] = file]
          /\ IF file = NoFile
               THEN /\ postResponse' = [postResponse EXCEPT ![d] = ErrorResponse(400, "no file")]
                    /\ postpc' = [postpc EXCEPT ![d] = "done"]
               ELSE /\ postpc' = [postpc EXCEPT ![d] = "call"]
                    /\ UNCHANGED postResponse
  /\ UNCHANGED <<postOther, routeOther>>

\* line 35: uploadAndProcessFile(file) is called
PostCall(d) ==
  /\ postpc[d] = "call"
  /\ \E user \in Users : UploadStart(d, postFile[d], user)

\* lines 35-52: the result of uploadAndProcessFile decides the response
PostReturn(d) ==
  /\ postpc[d] = "call"
  /\ upc[d] = "done"
  /\ postResponse' = [postResponse EXCEPT ![d] =
       [NoResponse EXCEPT !.status = IF upResult[d].success THEN 200 ELSE 400,
                          !.success = upResult[d].success,
                          !.error = upResult[d].error]]
  /\ postpc' = [postpc EXCEPT ![d] = "done"]
  /\ UNCHANGED <<postSession, postFile, postOther, routeOther>>

POST(d) ==
  \/ \E session \in Sessions, file \in RouteFiles : PostStart(d, session, file)
  \/ PostCall(d)
  \/ PostReturn(d)

\* route.ts lines 10-25: the session and the two checks on it
GetStart(session) ==
  /\ getpc = "idle"
  /\ nGets < MaxGets
  /\ nGets' = nGets + 1
  /\ getSession' = session
  /\ IF ~session.hasUser
       THEN /\ getResponse' = ErrorResponse(401, "auth required")
            /\ getpc' = "done"
     ELSE IF ~session.isAdmin
       THEN /\ getResponse' = ErrorResponse(403, "admin required")
            /\ getpc' = "done"
     ELSE /\ getpc' = "documents"
          /\ UNCHANGED getResponse
  /\ UNCHANGED <<getDocs, getCalls, getOther, routeOther>>

\* getDocuments, document-management-service.ts lines 184-205: the fields of
\* every item getAllDocuments returns
DocumentInfos ==
  LET items == getAllDocuments
  IN  [i \in 1..Len(items) |->
         [id |-> items[i].id, fileName |-> items[i].fileName,
          status |-> items[i].status]]

\* line 28: getDocuments() answers with the list or throws
GetDocuments ==
  /\ getpc = "documents"
  /\ getCalls' = Append(getCalls, "getDocuments")
  /\ \/ /\ getDocs' = DocumentInfos
        /\ getpc' = "stats"
        /\ UNCHANGED getResponse
     \/ /\ getResponse' = ErrorResponse(500, "list failed")
        /\ getpc' = "done"
        /\ UNCHANGED getDocs
  /\ UNCHANGED <<getSession, nGets, getOther, routeOther>>

\* lines 32-39: getStats() answers with the statistics or throws; the
\* response carries the list, the statistics and the length of the list
GetStats ==
  /\ getpc = "stats"
  /\ getCalls' = Append(getCalls, "getStats")
  /\ \/ getResponse' = [NoResponse EXCEPT !.status = 200, !.success = TRUE,
                                          !.documents = getDocs,
                                          !.stats = getDocumentStats,
                                          !.total = Len(getDocs)]
     \/ getResponse' = ErrorResponse(500, "list failed")
  /\ getpc' = "done"
  /\ UNCHANGED <<getSession, getDocs, nGets, getOther, routeOther>>

GET ==
  \/ \E session \in Sessions : GetStart(session)
  \/ GetDocuments
  \/ GetStats

\* the two routes, the upload they start and its continuation, and deletes
RouteNext ==
  \/ GET
  \/ \E d \in SingleIds :
       \/ POST(d)
       \/ UploadBlob(d)
       \/ UploadSave(d)
       \/ processDocumentInBackground(d)
       \/ deleteDocument(d)

RouteSpec == Init /\ [][RouteNext]_vars

\* ---------------------------------------------------------- specifications
\* Every handler, in every interleaving.
Next ==
  \E d \in SingleIds :
    \/ Upload(d)
    \/ processDocumentInBackground(d)
    \/ deleteDocument(d)
    \/ updateDocumentField(d)

Spec == Init /\ [][Next]_vars

\* The event loop resumes every continuation whose awaited call has settled,
\* and every call made here settles (with a value or an error).
FairSpec ==
  /\ Spec
  /\ \A d \in DocIds :
       /\ WF_vars(UploadBlob(d) \/ UploadSave(d))
       /\ WF_vars(processDocumentInBackground(d))
       /\ WF_vars(DeleteBlob(d) \/ DeleteSearch(d) \/ DeleteMetaRead(d)
                    \/ DeleteMetaWrite(d))
       /\ WF_vars(EditWrite(d))

\* The server process stops or restarts while a continuation is running.
\* Nothing outside the process holds the continuation (it is a promise that
\* uploadAndProcessFile started without awaiting it), so it is abandoned where
\* it stands, and so is every other call the process was serving; the stores
\* keep what was written.
InFlight(d) ==
  bgpc[d] \in {"p_read", "p_write", "extract", "embed", "list", "index",
               "c_read", "c_write", "e_read", "e_write"}

Crash ==
  /\ \E d \in DocIds : InFlight(d)
  /\ bgpc' = [d \in DocIds |-> IF InFlight(d) THEN "abandoned" ELSE bgpc[d]]
  /\ upc' = [d \in DocIds |-> IF upc[d] \in {"blob", "save"} THEN "aborted" ELSE upc[d]]
  /\ dpc' = [d \in DocIds |-> "idle"]
  /\ delResult' = [d \in DocIds |-> IF dpc[d] # "idle" THEN "aborted" ELSE delResult[d]]
  /\ epc' = [d \in DocIds |-> "idle"]
  /\ editResult' = [d \in DocIds |-> IF epc[d] # "idle" THEN "aborted" ELSE editResult[d]]
  /\ UNCHANGED <<store, blobs, index, clock, hist, calls, touched>>
  /\ UNCHANGED <<upfile, upuser, upblob, upResult>>
  /\ UNCHANGED <<bgdoc, bgext, bgurl>>
  /\ UNCHANGED <<ddoc, dexist, dcalls, deletedOk, nDeletes>>
  /\ UNCHANGED <<edoc, eupd, nEdits>>
  /\ UNCHANGED <<downloadVars, chatVars>>

CrashNext == Next \/ Crash

CrashSpec == Init /\ [][CrashNext]_vars

\* the pipeline, deleteDocument and downloadDocument
DownloadNext ==
  \E d \in SingleIds :
    \/ Upload(d)
    \/ processDocumentInBackground(d)
    \/ deleteDocument(d)
    \/ downloadDocument(d)

DownloadSpec == Init /\ [][DownloadNext]_vars

\* concurrent uploads with their continuations
PairNext ==
  \E d \in DocIds :
    \/ Upload(d)
    \/ processDocumentInBackground(d)

PairSpec == Init /\ [][PairNext]_vars

\* Uploads and their continuations alone: no record is edited or deleted.
PipelineNext ==
  \E d \in SingleIds :
    \/ Upload(d)
    \/ processDocumentInBackground(d)

PipelineSpec == Init /\ [][PipelineNext]_vars

FairPipelineSpec ==
  /\ PipelineSpec
  /\ \A d \in DocIds :
       /\ WF_vars(UploadBlob(d) \/ UploadSave(d))
       /\ WF_vars(processDocumentInBackground(d))

\* --------------------------------------- the metadata container on its own
\* The container's three writes (saveDocument, updateDocument of the status,
\* the logical deleteDocument), one caller at a time, over MaxRecords items;
\* the statistics are read from whatever they leave.
Statuses == {"uploaded", "processing", "completed", "error"}

\* the item saveDocument stores for the d-th upload: sizes 100, 200, ...
StoredRecord(d) ==
  [exists |-> TRUE, id |-> d,
   fileName |-> IF d % 2 = 1 THEN NamePdf ELSE NamePng,
   fileType |-> IF d % 2 = 1 THEN "application/pdf" ELSE "image/png",
   fileSize |-> 100 * d,
   uploadedBy |-> "u1", uploadedAt |-> d,
   blobUrl |-> BlobUrl(<<"u1", d>>), blobName |-> <<"u1", d>>,
   searchIndexId |-> Undefined,
   pages |-> 0, confidence |-> 0, status |-> "uploaded",
   tags |-> NoValue, categories |-> NoValue, description |-> NoValue,
   isDeleted |-> FALSE]

storeOther ==
  <<blobs, index, clock, hist, uploadVars, bgVars, calls, deleteVars, editVars,
    touched>>

\* saveDocument, lines 57-72
StoreSave(d) ==
  /\ store[d] = NoDoc
  /\ \A e \in 1..(d - 1) : store[e] # NoDoc
  /\ store' = [store EXCEPT ![d] = StoredRecord(d)]
  /\ UNCHANGED storeOther
  /\ UNCHANGED <<downloadVars, chatVars>>

\* updateDocument(id, {status}), lines 75-90
StoreSetStatus(d, status) ==
  /\ store[d] # NoDoc
  /\ store[d].status # status
  /\ store' = [store EXCEPT ![d] = Merge(store[d], [status |-> status])]
  /\ UNCHANGED storeOther
  /\ UNCHANGED <<downloadVars, chatVars>>

\* deleteDocument, lines 93-105
StoreDelete(d) ==
  /\ store[d] # NoDoc
  /\ ~store[d].isDeleted
  /\ store' = [store EXCEPT ![d] = [store[d] EXCEPT !.isDeleted = TRUE]]
  /\ UNCHANGED storeOther
  /\ UNCHANGED <<downloadVars, chatVars>>

StoreInit ==
  /\ store = [d \in RecordIds |-> NoDoc]
  /\ InitRest

StoreNext ==
  \E d \in RecordIds :
    \/ StoreSave(d)
    \/ \E status \in Statuses : StoreSetStatus(d, status)
    \/ StoreDelete(d)

StoreSpec == StoreInit /\ [][StoreNext]_vars

\* ------------------------------------------------------------------ claims
Started(d) == upc[d] # "idle"
AllOk(d) == \A i \in 1..Len(calls[d]) : calls[d][i].ok
Called(d, op) == {i \in 1..Len(calls[d]) : calls[d][i].op = op}
Returned(d, op) == {i \in Called(d, op) : calls[d][i].ok}
IsPrefix(s, t) == Len(s) <= Len(t) /\ \A i \in 1..Len(s) : s[i] = t[i]
Settled(d) == bgpc[d] \in {"done", "rejected"}

\* the allow-list and the limit as the specification states them
AllowedExtensions ==
  { <<".", "p", "d", "f">>, <<".", "j", "p", "g">>, <<".", "j", "p", "e", "g">>,
    <<".", "p", "n", "g">>, <<".", "b", "m", "p">>, <<".", "t", "i", "f", "f">>,
    <<".", "t", "i", "f">> }
HasAllowedExtension(name) ==
  \E e \in AllowedExtensions :
     /\ Len(e) <= Len(name)
     /\ toLowerCase(SubSeq(name, Len(name) - Len(e) + 1, Len(name))) = e
WithinLimit(size) == size <= 500 * 1024 * 1024
PassesValidation(file) == HasAllowedExtension(file.name) /\ WithinLimit(file.size)

Lifecycle == <<"uploaded", "processing", "completed">>

\* C1: for a file that passes validation, when every adapter call succeeds and
\* no edit or delete touches the record, the stored status takes the values
\* uploaded, processing, completed in that order and nothing else, and it
\* eventually reaches completed.
C1_StatusOrder ==
  \A d \in DocIds :
     (Started(d) /\ PassesValidation(upfile[d]) /\ AllOk(d) /\ ~touched[d])
        => IsPrefix(hist[d], Lifecycle)

C1_UploadedProcessingCompleted ==
  /\ []C1_StatusOrder
  /\ \A d \in DocIds :
       (Started(d) /\ PassesValidation(upfile[d]))
          ~> (~AllOk(d) \/ touched[d]
                \/ (hist[d] = Lifecycle /\ store[d].status = "completed"))

C1_Witness ==
  \E d \in DocIds :
     /\ PassesValidation(upfile[d]) /\ AllOk(d) /\ ~touched[d]
     /\ hist[d] = Lifecycle /\ bgpc[d] = "done"

\* C2: when one of the continuation's calls fails (the update to processing,
\* extraction, embedding, the index write or the update to completed), the
\* record ends with status error.
C2_FailureEndsInError ==
  \A d \in DocIds :
     (Settled(d) /\ \E i \in 1..Len(calls[d]) :
                       /\ ~calls[d][i].ok
                       /\ calls[d][i].op \in
                            {"update.processing.read", "update.processing",
                             "extract", "embed", "index",
                             "update.completed.read", "update.completed"})
        => store[d].status = "error"

\* C3: a file whose extension is not in the allow-list is answered
\* success=false with the unsupported-type error; no blob store call and no
\* metadata store call is made and no continuation is started.
C3_DisallowedExtensionRejected ==
  \A d \in DocIds :
     (Started(d) /\ ~HasAllowedExtension(upfile[d].name))
        => /\ upc[d] = "done"
           /\ upResult[d] = [success |-> FALSE, documentId |-> 0,
                             error |-> "Unsupported file type"]
           /\ calls[d] = <<>>
           /\ blobs = {b \in blobs : b.originalName # upfile[d].name}
           /\ store[d] = NoDoc
           /\ bgpc[d] = "none"

C3_Witness ==
  \E d \in DocIds :
     /\ upc[d] = "done" /\ ~upResult[d].success
     /\ ~HasAllowedExtension(upfile[d].name)
     /\ upfile[d].size <= 500 * 1024 * 1024

\* C4: a file with an allowed extension whose size exceeds the maximum is
\* answered success=false with a size error that is not the extension error,
\* and nothing is written to the blob store or the metadata store.
C4_OversizeRejected ==
  \A d \in DocIds :
     (Started(d) /\ HasAllowedExtension(upfile[d].name)
                 /\ ~WithinLimit(upfile[d].size))
        => /\ upc[d] = "done"
           /\ ~upResult[d].success
           /\ upResult[d].error = "File size too large"
           /\ upResult[d].error # UnsupportedType
           /\ Called(d, "blob.put") = {} /\ Called(d, "meta.create") = {}
           /\ store[d] = NoDoc /\ bgpc[d] = "none"

C4_Witness ==
  \E d \in DocIds :
     /\ upc[d] = "done" /\ upResult[d].error = SizeTooLarge
     /\ HasAllowedExtension(upfile[d].name)
     /\ upfile[d].size = 500 * 1024 * 1024 + 1

\* C5: uploadAndProcessFile answers success=true with the new id in the step in
\* which the metadata create succeeds (the blob write having succeeded before),
\* at which point the record is still uploaded and the continuation has made no
\* call; the answer, once given, is not changed by what the continuation does.
C5_ReturnsBeforeProcessing ==
  [][\A d \in DocIds :
       /\ (store[d] = NoDoc /\ store'[d] # NoDoc)
             => /\ upc'[d] = "done"
                /\ upResult'[d] = [success |-> TRUE, documentId |-> d, error |-> ""]
                /\ Returned(d, "blob.put") # {}
                /\ store'[d].status = "uploaded"
                /\ bgpc'[d] = "p_read"
       /\ (upResult'[d].success /\ ~upResult[d].success)
             => (store[d] = NoDoc /\ store'[d] # NoDoc)
       /\ upc[d] = "done" => upResult'[d] = upResult[d]]_vars

C5_Witness ==
  \E d \in DocIds :
     /\ upc[d] = "done" /\ upResult[d].success /\ upResult[d].documentId = d
     /\ store[d].status = "processing" /\ ~Settled(d)

\* C6: once the stored status is completed or error, no step other than the
\* logical delete changes it, whatever edits run concurrently.
C6_TerminalStatusIsFinal ==
  [][\A d \in DocIds :
       (store[d] # NoDoc /\ store[d].status \in {"completed", "error"}
          /\ ~(~store[d].isDeleted /\ store'[d].isDeleted))
            => store'[d].status = store[d].status]_vars

\* C7: within one continuation, embedding is requested only after extraction
\* returned, the index write is issued only after embedding returned, and the
\* record is set to completed only after the index write returned successfully.
C7_StepsSequential ==
  \A d \in DocIds :
     /\ \A i \in Called(d, "embed") : \E j \in Returned(d, "extract") : j < i
     /\ \A i \in Called(d, "index") : \E j \in Returned(d, "embed") : j < i
     /\ \A i \in Called(d, "update.completed.read") \cup Called(d, "update.completed") :
           \E j \in Returned(d, "index") : j < i
     /\ (store[d] # NoDoc /\ store[d].status = "completed")
           => (Returned(d, "index") # {} /\ Returned(d, "embed") # {}
                 /\ Returned(d, "extract") # {})

C7_Witness ==
  \E d \in DocIds :
     /\ store[d] # NoDoc /\ store[d].status = "completed"
     /\ Returned(d, "index") # {} /\ index[d] # NoDoc

\* C8: a record with isDeleted=true is returned by none of the list queries,
\* is not counted by getDocumentStats, and getDocument answers null for it.
Ids(items) == {items[i].id : i \in 1..Len(items)}

C8_DeletedIsHidden ==
  \A d \in DocIds :
     (store[d] # NoDoc /\ store[d].isDeleted)
        => /\ d \notin Ids(getAllDocuments)
           /\ \A u \in Users : d \notin Ids(getUserDocuments(u))
           /\ \A f \in Files : d \notin Ids(getDocumentsByType(f.type))
           /\ \A st \in {"uploaded", "processing", "completed", "error"} :
                 d \notin Ids(getDocumentsByStatus(st))
           /\ d \notin getDocumentStats.ids
           /\ getDocumentStats.total =
                Cardinality({e \in DocIds : store[e] # NoDoc /\ ~store[e].isDeleted})
           /\ getDocument(d) = NoDoc

C8_Witness ==
  \E d \in DocIds :
     /\ store[d] # NoDoc /\ store[d].isDeleted /\ delResult[d] = "ok"
     /\ getDocument(d) = NoDoc

\* C9: once a delete of a document has succeeded and its continuation and the
\* delete have run to their end, the search index holds no entry with its id.
C9_DeletedLeavesIndex ==
  \A d \in DocIds :
     (deletedOk[d] /\ dpc[d] = "idle" /\ Settled(d)) => index[d] = NoDoc

\* C10: a delete that read its record issues a search-index delete exactly when
\* that record has searchIndexId set, and then with that searchIndexId.
IndexDeletes(d) ==
  {i \in 1..Len(dcalls[d]) : dcalls[d][i].op = "index.delete"}

C10_IndexDeleteIffSearchIndexId ==
  \A d \in DocIds :
     (dpc[d] = "idle" /\ delResult[d] # "none" /\ ddoc[d] # NoDoc)
        => /\ (IndexDeletes(d) # {}) <=> (ddoc[d].searchIndexId # Undefined)
           /\ \A i \in IndexDeletes(d) :
                 dcalls[d][i].arg = <<ddoc[d].searchIndexId>>

\* C11: a deleteDocument call on an id that has no metadata record, or whose
\* record is already logically deleted, ends with an error in that very step:
\* it deletes no blob, deletes no index entry and writes no metadata.
C11_DeleteOfMissingFails ==
  [][\A d \in DocIds :
       (nDeletes'[d] # nDeletes[d] /\ getDocument(d) = NoDoc)
         => /\ delResult'[d] = "error"
            /\ dpc'[d] = "idle"
            /\ dcalls'[d] = <<>>
            /\ store' = store
            /\ blobs' = blobs
            /\ index' = index]_vars

\* a second call on a record the first call deleted has failed
C11_Witness ==
  \E d \in DocIds :
    /\ deletedOk[d]
    /\ store[d] # NoDoc /\ store[d].isDeleted
    /\ nDeletes[d] = 2
    /\ dpc[d] = "idle"
    /\ delResult[d] = "error"
    /\ dcalls[d] = <<>>

\* the calls of the last deleteDocument(d), by operation
DeleteCalls(d, op) == {i \in 1..Len(dcalls[d]) : dcalls[d][i].op = op}

\* C12: the three steps of the delete flow are attempted independently: once
\* a call has ended, a blob delete or index delete that failed in it was
\* still followed by the attempt to mark the record deleted.
C12_DeleteStepsIndependent ==
  \A d \in DocIds :
    dpc[d] = "idle" =>
      \A i \in DeleteCalls(d, "blob.delete") \cup DeleteCalls(d, "index.delete") :
        ~dcalls[d][i].ok => \E j \in DeleteCalls(d, "meta.delete") : j > i

\* the items a query with isDeleted = false sees
Live == {d \in DOMAIN store : store[d] # NoDoc /\ ~store[d].isDeleted}

CountOf(counts, k) == IF k \in DOMAIN counts THEN counts[k] ELSE 0

RECURSIVE SumOver(_, _)
SumOver(f, S) ==
  IF S = {} THEN 0
  ELSE LET x == CHOOSE y \in S : TRUE IN f[x] + SumOver(f, S \ {x})

FileTypes == {"application/pdf", "image/png"}

\* C13: getDocumentStats counts exactly the records that are not deleted:
\* total is their number, byStatus[s] and byType[t] the number of them with
\* status s and type t, totalSize the sum of their sizes; the byStatus counts
\* add up to total; a deleted record is counted nowhere.
C13_StatsCountLiveRecords ==
  LET stats == getDocumentStats
  IN  /\ stats.total = Cardinality(Live)
      /\ stats.ids = Live
      /\ DOMAIN stats.byStatus \subseteq Statuses
      /\ DOMAIN stats.byType \subseteq FileTypes
      /\ \A s \in Statuses :
           CountOf(stats.byStatus, s) = Cardinality({d \in Live : store[d].status = s})
      /\ \A t \in FileTypes :
           CountOf(stats.byType, t) = Cardinality({d \in Live : store[d].fileType = t})
      /\ stats.totalSize = SumOver([d \in Live |-> store[d].fileSize], Live)
      /\ SumOver(stats.byStatus, DOMAIN stats.byStatus) = stats.total

\* the container of the example: five live records of sizes 100..500, three
\* completed, one error, one processing; total 5 and totalSize 1500
C13_Witness ==
  /\ DOMAIN store = RecordIds
  /\ Cardinality(Live) = 5
  /\ Cardinality({d \in Live : store[d].status = "completed"}) = 3
  /\ Cardinality({d \in Live : store[d].status = "error"}) = 1
  /\ Cardinality({d \in Live : store[d].status = "processing"}) = 1
  /\ getDocumentStats.total = 5
  /\ getDocumentStats.totalSize = 1500
  /\ getDocumentStats.byStatus =
       [s \in {"completed", "error", "processing"} |-> IF s = "completed" THEN 3 ELSE 1]

\* the control characters the sanitizer refuses
ControlCodes == (0..8) \cup {11, 12} \cup (14..31) \cup {127}
Whitespace == {9, 10, 11, 12, 13, 32}

\* the text without its leading and trailing whitespace
Trimmed(str) ==
  LET keep == {i \in 1..Len(str) : str[i] \notin Whitespace}
  IN  IF keep = {} THEN <<>>
      ELSE SubSeq(str, CHOOSE i \in keep : \A j \in keep : i <= j,
                       CHOOSE i \in keep : \A j \in keep : i >= j)

ShouldReject(str) ==
  \/ Trimmed(str) = <<>>
  \/ \E i \in 1..Len(str) : str[i] \in ControlCodes

\* the accepted contents of a batch, trimmed, in order
RECURSIVE AcceptedOf(_)
AcceptedOf(docs) ==
  IF docs = <<>> THEN <<>>
  ELSE (IF ShouldReject(coerce(docs[1].pageContent)) THEN <<>>
        ELSE <<Trimmed(coerce(docs[1].pageContent))>>) \o AcceptedOf(Tail(docs))

\* C14: the sanitizer rejects a text exactly when, converted to a string, it
\* is empty after trimming or holds a control character (0x00-0x08, 0x0B,
\* 0x0C, 0x0E-0x1F, 0x7F); an accepted text reaches the embedding service
\* trimmed.  For generateEmbeddings and for the filter of embedDocuments.
C14_SanitizerRejectsExactly ==
  /\ genpc # "idle" =>
       /\ (genResult = "rejected") <=> ShouldReject(coerce(genText))
       /\ (genResult # "rejected") => cleanText = Trimmed(coerce(genText))
  /\ embpc # "idle" => contentsToEmbed = AcceptedOf(documents)

\* a printable text of three characters was accepted and sent
C14_Witness ==
  /\ genpc = "done"
  /\ genText = JsString(<<65, 65, 65>>)
  /\ genResult = "ok"
  /\ cleanText = <<65, 65, 65>>

\* the positions of a batch whose content was sent to the service
SentPositions(docs) == {i \in 1..Len(docs) : passesFilter(docs[i].pageContent)}

\* the rank of position i among the sent positions
RankAmong(S, i) == Cardinality({k \in S : k <= i})

\* C15: when the service answers with one vector per text sent, document i
\* carries a vector exactly if its content was sent, and it is the j-th
\* vector when its content was the j-th sent; for every content, also one
\* whose only control characters are leading or trailing VT / FF.
C15_VectorsAligned ==
  (embpc = "done" /\ embResult = "ok" /\ Len(embeddings) = Len(contentsToEmbed)) =>
    \A i \in 1..Len(documents) :
      IF i \in SentPositions(documents)
        THEN documents[i].embedding = embeddings[RankAmong(SentPositions(documents), i)]
        ELSE documents[i].embedding = NoEmbedding

\* C16: embedDocuments checks that the service answered with as many vectors
\* as texts were sent before it assigns any: when the counts differ, no
\* document receives a vector and the call fails.
C16_CountAsserted ==
  (embpc = "done" /\ contentsToEmbed # <<>>
     /\ Len(embeddings) # Len(contentsToEmbed)) =>
    /\ embResult = "failed"
    /\ \A i \in 1..Len(documents) : documents[i].embedding = NoEmbedding

\* C17: a content the sanitizer rejects is skipped and does not fail the
\* pipeline.  For the admin variant: when the extracted text is rejected by
\* generateEmbeddings and every other call of the continuation succeeds, the
\* ingestion does not end with status error.
C17_RejectedContentSkipped ==
  \A d \in DocIds :
    (/\ Settled(d)
     /\ bgext[d] # NoExtract
     /\ embeddingRejects(bgext[d].content)
     /\ \A i \in 1..Len(calls[d]) : calls[d][i].op # "embed" => calls[d][i].ok)
      => store[d].status # "error"

\* a chunk without the characters it repeats from the chunk before
RECURSIVE Reassemble(_, _)
Reassemble(chunks, overlap) ==
  IF chunks = <<>> THEN <<>>
  ELSE Reassemble(SubSeq(chunks, 1, Len(chunks) - 1), overlap)
         \o (IF Len(chunks) = 1 THEN chunks[1]
             ELSE SubSeq(chunks[Len(chunks)], overlap + 1, Len(chunks[Len(chunks)])))

C19_EnsureIndexIdempotent ==
  /\ ensExisted =>
       /\ ensCreates = 0
       /\ chatResult.error # "Azure Cognitive Search Error"
  /\ (cupc \in {"load", "chunk"} /\ ~ensExisted) =>
       /\ ensCreates = 1
       /\ indexExists

\* C20: the step that creates the record of an upload stores status
\* uploaded, pages 0, confidence 0, isDeleted false, no searchIndexId, the
\* size of the uploaded file, and the blob name and URL that the blob write
\* of this upload returned (the name of a blob that holds this file).
C20_RecordStartsUploaded ==
  [][\A d \in DocIds :
       (store[d] = NoDoc /\ store'[d] # NoDoc) =>
         /\ upResult'[d].success /\ upResult'[d].documentId = d
         /\ store'[d].status = "uploaded"
         /\ store'[d].pages = 0
         /\ store'[d].confidence = 0
         /\ store'[d].isDeleted = FALSE
         /\ store'[d].searchIndexId = Undefined
         /\ store'[d].fileSize = upfile[d].size
         /\ store'[d].fileName = upfile[d].name
         /\ store'[d].blobName = upblob[d].blobName
         /\ store'[d].blobUrl = upblob[d].url
         /\ Returned(d, "blob.put") # {}
         /\ \E b \in blobs : /\ b.blobName = store'[d].blobName
                             /\ b.originalName = upfile[d].name
                             /\ store'[d].blobUrl = BlobUrl(b.blobName)]_vars

\* the record of the file of exactly 500 MB, just created
C20_Witness ==
  \E d \in DocIds :
    /\ upResult[d].success
    /\ store[d] # NoDoc
    /\ store[d].status = "uploaded"
    /\ store[d].fileSize = maxSize
    /\ store[d].blobName = upblob[d].blobName
    /\ bgpc[d] = "p_read"

\* C21: no failure inside the background continuation escapes it: the
\* continuation never settles with a rejected promise, whichever adapter call
\* failed, and a settled continuation with a failed call shows status error.
C21_NoFailureEscapes ==
  \A d \in DocIds :
    /\ bgpc[d] # "rejected"
    /\ (bgpc[d] = "done" /\ ~AllOk(d)) => store[d].status = "error"

\* C22: for one upload, extraction, embedding and the search-index write are
\* each invoked at most once (the embedding service is asked for a vector at
\* most once, whichever adapter asks), the record is created at most once,
\* and after a failed continuation the blob written at upload is still stored.
C22_NoRetryNoCompensation ==
  \A d \in DocIds :
    /\ \A op \in {"blob.put", "meta.create", "extract", "index",
                  "update.processing", "update.completed", "update.error"} :
         Cardinality(Called(d, op)) <= 1
    /\ Cardinality(Called(d, "embed") \cup Called(d, "index.embed")) <= 1
    /\ (Settled(d) /\ ~AllOk(d)) =>
         \E b \in blobs : /\ b.blobName = upblob[d].blobName
                          /\ b.blobName = store[d].blobName

\* C23: once the continuation of a document was abandoned with the record at
\* uploaded or processing, no step of the system changes that record's status,
\* unless the step leaves the record logically deleted.
C23_AbandonedStatusStays ==
  [][\A d \in DocIds :
       (bgpc[d] = "abandoned" /\ store[d] # NoDoc
          /\ store[d].status \in {"uploaded", "processing"}
          /\ ~store'[d].isDeleted)
            => store'[d].status = store[d].status]_vars

\* the continuation was abandoned at processing, and an edit that started
\* after the restart has read the record and is about to replace it
C23_Witness ==
  \E d \in DocIds :
    /\ bgpc[d] = "abandoned"
    /\ store[d].status = "processing"
    /\ epc[d] = "write"
    /\ edoc[d].status = "processing"

\* C24: uploadAndProcessFile always ends by returning a result: a failed blob
\* write or a failed metadata create gives success=false; the continuation
\* is started only after both succeeded, and after a failed blob write no
\* metadata create is attempted and no record exists.
C24_UploadReturnsStructuredResult ==
  \A d \in DocIds :
    /\ upc[d] \in {"idle", "blob", "save", "done"}
    /\ upc[d] = "done" <=> upResult[d] # NoResult
    /\ (Called(d, "blob.put") # {} /\ Returned(d, "blob.put") = {}) =>
         /\ upc[d] = "done" /\ ~upResult[d].success
         /\ Called(d, "meta.create") = {}
         /\ store[d] = NoDoc
         /\ bgpc[d] = "none"
    /\ (Called(d, "meta.create") # {} /\ Returned(d, "meta.create") = {}) =>
         /\ upc[d] = "done" /\ ~upResult[d].success
         /\ store[d] = NoDoc
         /\ bgpc[d] = "none"
    /\ bgpc[d] # "none" =>
         /\ Returned(d, "blob.put") # {} /\ Returned(d, "meta.create") # {}
         /\ upResult[d].success

\* the blob was written and the metadata create failed: the caller has a
\* result with success=false and no continuation runs
C24_Witness ==
  \E d \in DocIds :
    /\ upc[d] = "done"
    /\ Returned(d, "blob.put") # {}
    /\ Called(d, "meta.create") # {} /\ Returned(d, "meta.create") = {}
    /\ ~upResult[d].success /\ upResult[d].error = "upload failed"
    /\ bgpc[d] = "none"

\* C25: the replace made by updateDocumentTags, updateDocumentCategories or
\* updateDocumentDescription leaves the stored status, pages, confidence,
\* searchIndexId and isDeleted of the record as they were, in every
\* interleaving with the continuation and with a delete of the same id.
C25_EditsKeepProcessingFields ==
  [][\A d \in DocIds :
       (epc[d] = "write" /\ epc'[d] = "idle" /\ editResult'[d] = "ok") =>
         /\ store'[d].status = store[d].status
         /\ store'[d].pages = store[d].pages
         /\ store'[d].confidence = store[d].confidence
         /\ store'[d].searchIndexId = store[d].searchIndexId
         /\ store'[d].isDeleted = store[d].isDeleted]_vars

\* C26: once the stored record has isDeleted = true, no step makes it false
\* again (or removes it), whatever updateDocument runs concurrently.
C26_DeletedStaysDeleted ==
  [][\A d \in DocIds :
       (store[d] # NoDoc /\ store[d].isDeleted) =>
         (store'[d] # NoDoc /\ store'[d].isDeleted)]_vars

\* C27: an edit of tags, categories or description whose read finds no live
\* record (the id is unknown or the record is logically deleted) fails: it
\* does not go on to its replace, the caller gets an error and the stored
\* record stays as it was.
C27_EditOfMissingFails ==
  [][\A d \in DocIds :
       (epc[d] = "idle" /\ nEdits' # nEdits /\ touched'[d]
          /\ (editResult'[d] # editResult[d] \/ epc'[d] # epc[d])
          /\ getDocument(d) = NoDoc) =>
         /\ epc'[d] = "idle"
         /\ editResult'[d] = "error"
         /\ store'[d] = store[d]]_vars

\* C28: a downloadDocument call whose lookup finds no live record (unknown
\* or logically deleted id) ends at once with an error and asks the blob
\* store for nothing; a call on a live record asks the blob store only for
\* the blob named by the blobName of the record it read, which is the
\* blobName stored for that id.
C28_DownloadReadsRecordBlob ==
  [][\A d \in DocIds :
       /\ (dlpc[d] = "idle" /\ nDownloads'[d] # nDownloads[d]) =>
            /\ dlreads'[d] = <<>>
            /\ IF getDocument(d) = NoDoc
                 THEN dlpc'[d] = "idle" /\ dlResult'[d] = "error"
                 ELSE dlpc'[d] = "blob" => dldoc'[d] = store[d]
       /\ (dlreads'[d] # dlreads[d] /\ dlreads'[d] # <<>>) =>
            /\ dlpc[d] \in {"blob", "props"}
            /\ dlreads'[d] = Append(dlreads[d], dldoc[d].blobName)
            /\ store[d] # NoDoc /\ dldoc[d].blobName = store[d].blobName
            /\ dldoc[d].blobName = upblob[d].blobName
       /\ dlResult'[d] = "ok" => Len(dlreads'[d]) = 2]_vars

\* a download of an id that no record has yet failed without a blob read
C28_Witness ==
  \E d \in DocIds :
    /\ store[d] = NoDoc
    /\ nDownloads[d] = 1
    /\ dlResult[d] = "error"
    /\ dlreads[d] = <<>>
    /\ dlpc[d] = "idle"

\* C29: once a record exists, no step changes its id, fileName, fileType,
\* fileSize, uploadedBy, uploadedAt, blobName or blobUrl (nor removes the
\* item): not a status write of the continuation, not an edit of tags,
\* categories or description, not the logical delete.
C29_CreationFieldsImmutable ==
  [][\A d \in DocIds :
       store[d] # NoDoc =>
         /\ store'[d] # NoDoc
         /\ \A f \in {"id", "fileName", "fileType", "fileSize", "uploadedBy",
                      "uploadedAt", "blobName", "blobUrl"} :
              store'[d][f] = store[d][f]]_vars

\* a record that went through the completed write, an edit and the logical
\* delete
C29_Witness ==
  \E d \in DocIds :
    /\ store[d] # NoDoc
    /\ store[d].status = "completed"
    /\ store[d].isDeleted
    /\ store[d].tags # NoValue
    /\ store[d].blobName = upblob[d].blobName
    /\ store[d].fileName = upfile[d].name

\* the stored pages and confidence agree with the stored status: 0 and 0
\* before completion and at error, the extraction's values at completed
PagesMatchStatus ==
  \A d \in DocIds :
    store[d] # NoDoc =>
      IF store[d].status = "completed"
        THEN /\ store[d].pages = bgext[d].pages
             /\ store[d].confidence = bgext[d].confidence
             /\ Returned(d, "extract") # {}
        ELSE /\ store[d].status \in {"uploaded", "processing", "error"}
             /\ store[d].pages = 0
             /\ store[d].confidence = 0

\* a step that changes the stored pages or confidence either is the write
\* that sets status completed, with the extraction's values, or puts 0 and 0
\* back together with an earlier status
PagesWrittenWithCompleted ==
  \A d \in DocIds :
    (store[d] # NoDoc
       /\ (store'[d].pages # store[d].pages
             \/ store'[d].confidence # store[d].confidence)) =>
      \/ /\ store'[d].status = "completed"
         /\ store[d].status # "completed"
         /\ store'[d].pages = bgext[d].pages
         /\ store'[d].confidence = bgext[d].confidence
      \/ /\ store'[d].status # "completed"
         /\ store'[d].pages = 0
         /\ store'[d].confidence = 0

\* C30: in every reachable state a record whose status is uploaded,
\* processing or error has pages = 0 and confidence = 0, and pages and
\* confidence take the extraction's values only in the write that sets
\* status completed.
C30_PagesOnlyWhenCompleted ==
  []PagesMatchStatus /\ [][PagesWrittenWithCompleted]_vars

\* the extraction returned two pages, a later step failed, and the record
\* is at error with pages = 0 and confidence = 0
C30_Witness ==
  \E d \in DocIds :
    /\ store[d] # NoDoc
    /\ store[d].status = "error"
    /\ Returned(d, "extract") # {}
    /\ bgext[d].pages = 2 /\ bgext[d].confidence = 90
    /\ store[d].pages = 0 /\ store[d].confidence = 0

\* C31: in every reachable state a record with searchIndexId set belongs to
\* a document whose search-index write has returned successfully, its
\* searchIndexId is its own id and its status is completed.
C31_SearchIndexIdAfterIndexing ==
  \A d \in DocIds :
    (store[d] # NoDoc /\ store[d].searchIndexId # Undefined) =>
      /\ Returned(d, "index") # {}
      /\ store[d].searchIndexId = store[d].id
      /\ store[d].id = d
      /\ store[d].status = "completed"

\* a completed record that carries its own id as searchIndexId
C31_Witness ==
  \E d \in DocIds :
    /\ store[d] # NoDoc
    /\ store[d].searchIndexId = d
    /\ store[d].status = "completed"
    /\ Returned(d, "index") # {}

\* C32: the size limit is inclusive in both policies: an admin upload of
\* exactly 500 * 1024 * 1024 bytes is not refused for its size, and a chat
\* upload of exactly MAX_DOCUMENT_SIZE bytes is not refused for its size.
C32_LimitIsInclusive ==
  /\ \A d \in DocIds :
       (upc[d] = "done" /\ upfile[d].size = 500 * 1024 * 1024) =>
         upResult[d].error # SizeTooLarge
  /\ (cupc = "done" /\ formFile # NoFile /\ formFile.size = MAX_DOCUMENT_SIZE) =>
       chatResult.error # "file too large"

\* C33: updateDocument replaces the record with no concurrency check: the
\* replace of an edit can succeed whatever the store holds by then, and when
\* it succeeds the stored record is the copy the edit read with its one field
\* changed; the same goes for the status writes of the continuation. The
\* outcome on the whole record is that of the last replace.
C33_LastWriteWins ==
  \A d \in DocIds :
    /\ epc[d] = "write" =>
         ENABLED (/\ EditWrite(d)
                  /\ editResult'[d] = "ok"
                  /\ store'[d] = Merge(edoc[d], [f \in {eupd[d].field} |-> eupd[d].value]))
    /\ bgpc[d] = "p_write" =>
         ENABLED (/\ BgProcessingWrite(d)
                  /\ store'[d] = Merge(bgdoc[d], [status |-> "processing"]))
    /\ bgpc[d] = "c_write" =>
         ENABLED (/\ BgCompletedWrite(d)
                  /\ store'[d] = Merge(bgdoc[d], CompletedUpdates(d)))

\* both interleavings in one run: the edit's replace put the status back
\* from processing to uploaded (the continuation's status write was
\* overwritten), and the completed write that followed removed the tag the
\* edit had stored, although the edit returned successfully
C33_Witness ==
  \E d \in DocIds :
    /\ editResult[d] = "ok"
    /\ nDeletes[d] = 0
    /\ hist[d] = <<"uploaded", "processing", "uploaded", "completed">>
    /\ store[d].status = "completed"
    /\ store[d].tags = NoValue
    /\ store[d].categories = NoValue
    /\ store[d].description = NoValue

\* the blobs of the owner of document d that carry d's file name as their
\* original name
NamedLikeFileOf(d) ==
  {b \in blobs : b.blobName[1] = upuser[d] /\ b.originalName = upfile[d].name}

C35_BlobNamesDistinct ==
  \A d, e \in DocIds :
    (d # e /\ store[d] # NoDoc /\ store[e] # NoDoc) =>
      store[d].blobName # store[e].blobName

\* the index documents IndexDocuments built are one per input chunk, in the
\* order of the input, each with the chunk as pageContent, the given
\* chatThreadId and the file name as metadata; a successful call returns
\* them after embedding, index write and chat-document write all succeeded;
\* a failed call returns success=false with an empty response
IndexDocumentsBuilt ==
  /\ ixpc \in {"embed", "post", "upsert"} \/ (ixpc = "done" /\ ixResult.success) =>
       /\ Len(documentsToIndex) = Len(ixArgs.docs)
       /\ \A i \in 1..Len(documentsToIndex) :
            /\ documentsToIndex[i].pageContent = ixArgs.docs[i]
            /\ documentsToIndex[i].chatThreadId = ixArgs.chatThreadId
            /\ documentsToIndex[i].metadata = ixArgs.fileName
            /\ \A j \in 1..Len(documentsToIndex) :
                 i # j => documentsToIndex[i].id # documentsToIndex[j].id
  /\ (ixpc = "done" /\ ixResult.success) =>
       /\ ixResult.response = documentsToIndex
       /\ ixcalls = <<Ev("embed", TRUE), Ev("index", TRUE), Ev("upsert", TRUE)>>
  /\ (\E i \in 1..Len(ixcalls) : ~ixcalls[i].ok) =>
       /\ ixpc = "done"
       /\ ~ixResult.success
       /\ ixResult.response = <<>>

\* a chat-document record is written only by the call's UpsertChatDocument,
\* after embedDocuments and the index write returned, and the call then
\* reports success; it is the record of the given thread and file name
ChatDocumentAfterIndex ==
  chatDocuments' # chatDocuments =>
    /\ ixpc = "upsert"
    /\ ixcalls = <<Ev("embed", TRUE), Ev("index", TRUE)>>
    /\ ixResult'.success
    /\ \E r \in chatDocuments' \ chatDocuments :
         /\ chatDocuments' = chatDocuments \cup {r}
         /\ r.chatThreadId = ixArgs.chatThreadId
         /\ r.name = ixArgs.fileName

\* C36: IndexDocuments builds exactly one index document per input chunk, in
\* input order, each with the given chatThreadId and the file name as
\* metadata; the chat-document record is created only after indexDocuments
\* succeeded; when embedding or indexing fails the result is success=false
\* with an empty response and no chat-document record is created.
C36_OneIndexDocumentPerChunk ==
  []IndexDocumentsBuilt /\ [][ChatDocumentAfterIndex]_vars

\* two chunks, the second one empty, were indexed for thread t2 and the
\* chat-document record was written after the index write
C36_Witness ==
  /\ ixpc = "done"
  /\ ixResult.success
  /\ Len(ixArgs.docs) = 2
  /\ ixArgs.docs[2] = JsString(<<>>)
  /\ Len(ixResult.response) = 2
  /\ \E r \in chatDocuments : r.chatThreadId = ixArgs.chatThreadId /\ r.id = lastId

\* C37: when deleteDocuments(chatThreadId) returns successfully, the search
\* index holds no document of that thread.
C37_ThreadLeavesIndex ==
  [][(rmpc = "post" /\ rmResult' = "ok") =>
       {x \in searchIndex' : x.chatThreadId = rmThread} = {}]_vars

\* the extension and the size of a chat upload, as the policy states them
ChatExtensionAllowed(file) ==
  \E n \in 1..Len(file.name) :
    /\ file.name[n] = "."
    /\ \A k \in (n + 1)..Len(file.name) : file.name[k] # "."
    /\ toLowerCase(SubSeq(file.name, n, Len(file.name))) \in chatSupportedExtensions

C39_TotalEqualsStatsTotal ==
  (getpc = "done" /\ getResponse.status = 200)
    => /\ getResponse.total = Len(getResponse.documents)
       /\ getResponse.total = getResponse.stats.total

\* C40: uploadAndProcessFile, getDocuments and getStats are called only for
\* a session of an admin user; without a session the response is 401, for a
\* user who is no admin 403, and a failed uploadAndProcessFile gives 400.
C40_RoutesGuardServiceCalls ==
  /\ getCalls # <<>> => (getSession.hasUser /\ getSession.isAdmin)
  /\ getpc \in {"documents", "stats"} => (getSession.hasUser /\ getSession.isAdmin)
  /\ getpc = "done" =>
       /\ ~getSession.hasUser => getResponse.status = 401
       /\ (getSession.hasUser /\ ~getSession.isAdmin) => getResponse.status = 403
       /\ getResponse.status \in {401, 403} => getCalls = <<>>
  /\ \A d \in DocIds :
       /\ upc[d] # "idle" =>
            (postpc[d] # "idle" /\ postSession[d].hasUser /\ postSession[d].isAdmin)
       /\ postpc[d] = "call" => (postSession[d].hasUser /\ postSession[d].isAdmin)
       /\ postpc[d] = "done" =>
            /\ ~postSession[d].hasUser => postResponse[d].status = 401
            /\ (postSession[d].hasUser /\ ~postSession[d].isAdmin)
                 => postResponse[d].status = 403
            /\ postResponse[d].status \in {401, 403} =>
                 (upc[d] = "idle" /\ calls[d] = <<>> /\ store[d] = NoDoc)
            /\ (upc[d] = "done" /\ ~upResult[d].success) =>
                 (postResponse[d].status = 400 /\ ~postResponse[d].success)
            /\ postResponse[d].status = 200 => upResult[d].success

\* a non-admin list request was refused with 403 and an admin upload of a
\* .txt file was answered 400 after uploadAndProcessFile returned its failure
C40_Witness ==
  /\ getpc = "done" /\ getSession.hasUser /\ ~getSession.isAdmin
  /\ getResponse.status = 403 /\ getCalls = <<>>
  /\ postpc[1] = "done" /\ postSession[1].isAdmin
  /\ upc[1] = "done" /\ ~upResult[1].success
  /\ postResponse[1].status = 400

====
